---- MODULE Spec2Model ----
(***************************************************************************)
(* A model of the web3 helper package of go-blockchain-helper: the ABI     *)
(* call codec (EncodeFunctionCall / DecodeFunctionResult and the value     *)
(* encoders and decoders under them), with the address validator and the   *)
(* placeholder hash it uses.                                               *)
(*                                                                         *)
(* Representation.                                                         *)
(*  - A []byte, and a Go string used as a value, is a sequence of bytes    *)
(*    (0..255).  Str("0x..") writes such a string from a literal.          *)
(*  - An ABI type (ABIParam.Type) is a TLA+ string; HasPrefix, HasSuffix   *)
(*    and Contains work on it as strings.HasPrefix etc. do.                *)
(*  - A *big.Int is [neg, abs]: the sign and the big-endian magnitude      *)
(*    without leading zero bytes (math/big keeps sign and magnitude).      *)
(*  - An int64 whose width matters (decodeString) is its 8 two's           *)
(*    complement bytes, big-endian; int is 64 bits wide.                   *)
(*  - An interface{} value is <<kind, v>>, kind naming its dynamic type.   *)
(*  - A call's outcome is [st, err, bytes]: st is "ok", "err" (an error    *)
(*    was returned; err holds the chain of messages, outermost first,      *)
(*    without their formatted arguments) or "panic" (the call crashed).    *)
(***************************************************************************)
EXTENDS Integers, Sequences, FiniteSets, TLC

VARIABLES
    params,     \* the []ABIParam a caller holds
    values,     \* the []interface{} a caller holds
    funcName,   \* the name given to EncodeFunctionCall
    enc,        \* what EncodeFunctionCall returned
    loc,        \* the locals of its encodeParameters call at the return
    decData,    \* the data given to DecodeFunctionResult
    dec,        \* what DecodeFunctionResult returned
    val,        \* an encodeValue call: its type, its value and what it returned
    back,       \* what decodeValue returned for the bytes of that call
    va,         \* a ValidateAddress call: its argument and what it returned
    tok,        \* a token helper call: the helper, its arguments and what it returned
    pc,         \* what the caller did last
    filters,        \* the EventFilter objects the callers made; a *EventFilter is a place here
    subs,           \* the EventSubscription objects made; a *EventSubscription is a place here
    subscriptions,  \* EventMonitor.subscriptions: the *EventSubscription of each ID
    handlers,       \* EventMonitor.handlers: the number of handlers of each signature
    processed,      \* the number of ProcessEvent calls made, counted up to MaxCounted
    callCount,      \* the number of calls and receives made besides ProcessEvent
    last,           \* the last ProcessEvent call (its event, deliveries, drops,
                    \* goroutines), or the call that panicked
    mon,            \* how the last monitor call ended: "none", "ok" or "panic"
    threads,        \* two threads on the monitor: where each is in its call
    fm,             \* an eventMatchesFilter call: the filter, the event, the result
    units,          \* a FormatUnits call and the ParseUnits call on its result
    fee             \* a CalculateFee call: the transaction and the result

callVars == <<fm, units, fee>>

codecVars == <<params, values, funcName, enc, loc, decData, dec, val, back, va, tok, pc,
               callVars>>

monitorVars ==
    <<filters, subs, subscriptions, handlers, processed, callCount, last, mon>>

vars == <<codecVars, monitorVars, threads, callVars>>

(***************************************************************************)
(* Bytes and strings                                                       *)
(***************************************************************************)

\* The printable ASCII characters a literal of the model may hold, in three
\* runs of consecutive codes: 32..33, 35..91 and 93..95, 97..126.
CharsA == " !"

CharsB == "#$%&'()*+,-./0123456789:;<=>?@ABCDEFGHIJKLMNOPQRSTUVWXYZ["

CharsC == "]^_"

CharsD == "abcdefghijklmnopqrstuvwxyz{|}~"

\* The position of a one-character string in a run, 0 when it is not there.
Pos(run, c) ==
    IF \E i \in 1..Len(run) : SubSeq(run, i, i) = c
    THEN CHOOSE i \in 1..Len(run) : SubSeq(run, i, i) = c
    ELSE 0

\* The byte of a one-character string of a run that starts at code base.
RunOrd(run, base) ==
    [c \in {SubSeq(run, i, i) : i \in 1..Len(run)} |-> base + Pos(run, c) - 1]

OrdTable == RunOrd(CharsA, 32) @@ RunOrd(CharsB, 35) @@ RunOrd(CharsC, 93) @@ RunOrd(CharsD, 97)

\* The byte of a one-character string.
Ord(c) == OrdTable[c]

\* []byte(s) of a string literal.
Str(s) == [i \in 1..Len(s) |-> Ord(SubSeq(s, i, i))]

\* make([]byte, n)
Zeros(n) == [i \in 1..n |-> 0]

\* strings.HasPrefix, strings.HasSuffix, strings.Contains, strings.TrimPrefix
HasPrefix(s, p) == Len(s) >= Len(p) /\ SubSeq(s, 1, Len(p)) = p

HasSuffix(s, p) == Len(s) >= Len(p) /\ SubSeq(s, Len(s) - Len(p) + 1, Len(s)) = p

Contains(s, p) == \E i \in 1..(Len(s) - Len(p) + 1) : SubSeq(s, i, i + Len(p) - 1) = p

TrimPrefix(s, p) == IF HasPrefix(s, p) THEN SubSeq(s, Len(p) + 1, Len(s)) ELSE s

TrimSuffix(s, p) == IF HasSuffix(s, p) THEN SubSeq(s, 1, Len(s) - Len(p)) ELSE s

\* strings.ToLower on ASCII bytes.
ToLower(s) == [i \in 1..Len(s) |-> IF s[i] >= 65 /\ s[i] <= 90 THEN s[i] + 32 ELSE s[i]]

\* The value of a hexadecimal digit, -1 for any other byte (encoding/hex).
HexVal(c) ==
    IF c >= 48 /\ c <= 57 THEN c - 48
    ELSE IF c >= 97 /\ c <= 102 THEN c - 87
    ELSE IF c >= 65 /\ c <= 70 THEN c - 55
    ELSE -1

\* hex.DecodeString succeeds: an even number of hexadecimal digits.
HexOk(s) == Len(s) % 2 = 0 /\ \A i \in 1..Len(s) : HexVal(s[i]) >= 0

\* hex.DecodeString, where it succeeds.
HexDecodeString(s) == [i \in 1..(Len(s) \div 2) |-> 16 * HexVal(s[2 * i - 1]) + HexVal(s[2 * i])]

\* One lower-case hexadecimal digit.
HexDigit(n) == IF n < 10 THEN 48 + n ELSE 87 + n

\* hex.EncodeToString: two lower-case digits per byte.
HexEncodeToString(b) ==
    [i \in 1..(2 * Len(b)) |->
        IF i % 2 = 1 THEN HexDigit(b[(i + 1) \div 2] \div 16)
        ELSE HexDigit(b[i \div 2] % 16)]

\* The exclusive or of two bytes, bit by bit.
RECURSIVE XorBits(_, _, _)
XorBits(a, b, n) ==
    IF n = 0 THEN 0
    ELSE 2 * XorBits(a \div 2, b \div 2, n - 1) + ((a + b) % 2)

XorTable == [a \in 0..255 |-> [b \in 0..255 |-> XorBits(a, b, 8)]]

\* a ^ b on bytes
Xor(a, b) == XorTable[a][b]

(***************************************************************************)
(* math/big                                                                *)
(***************************************************************************)

\* b without its leading zero bytes.
StripZeros(b) ==
    IF \A i \in 1..Len(b) : b[i] = 0 THEN <<>>
    ELSE LET k == CHOOSE i \in 1..Len(b) : b[i] # 0 /\ \A j \in 1..(i - 1) : b[j] = 0
         IN  SubSeq(b, k, Len(b))

\* The big-endian bytes of a natural number, none for 0.
RECURSIVE NatBytes(_)
NatBytes(n) == IF n = 0 THEN <<>> ELSE NatBytes(n \div 256) \o <<n % 256>>

\* big.NewInt(n), and SetUint64 for a value the model holds.
NewInt(n) == [neg |-> n < 0, abs |-> NatBytes(IF n < 0 THEN 0 - n ELSE n)]

\* new(big.Int).SetBytes(b): b as a big-endian unsigned integer.
SetBytes(b) == [neg |-> FALSE, abs |-> StripZeros(b)]

\* The carry into byte j of x + y, for big-endian x and y of one length: some
\* lower byte overflows and every byte between passes the carry on.
CarryInto(x, y, j) ==
    \E k \in (j + 1)..Len(x) :
        /\ x[k] + y[k] >= 256
        /\ \A l \in (j + 1)..(k - 1) : x[l] + y[l] = 255

\* x + y on big-endian bytes of one length n: n + 1 bytes.
AddBytes(x, y) ==
    <<IF CarryInto(x, y, 0) THEN 1 ELSE 0>> \o
    SubSeq([j \in 1..Len(x) |->
               (x[j] + y[j] + (IF CarryInto(x, y, j) THEN 1 ELSE 0)) % 256], 1, Len(x))

\* Byte k (0 the lowest) of each product abs[i] * m (+ a at the lowest place),
\* moved k places up and zero-extended to Len(abs) + 4 bytes.
MulLayer(abs, m, a, k) ==
    LET n == Len(abs)
        p(i) == abs[i] * m + (IF i = n THEN a ELSE 0)
        pow == <<1, 256, 65536, 16777216>>[k + 1]
    IN  Zeros(4 - k) \o SubSeq([i \in 1..n |-> (p(i) \div pow) % 256], 1, n) \o Zeros(k)

\* abs * m + a, for m and a up to 10^6, on big-endian bytes (leading zeros
\* possible in the result).
MulAdd(abs, m, a) ==
    IF abs = <<>> THEN NatBytes(a)
    ELSE LET low == AddBytes(MulLayer(abs, m, a, 0), MulLayer(abs, m, a, 1))
             high == AddBytes(MulLayer(abs, m, a, 2), MulLayer(abs, m, a, 3))
         IN  IF Len(low) = Len(high) THEN AddBytes(low, high) ELSE <<>>

\* The value of the n decimal digits of d that end at position j.
RECURSIVE ChunkVal(_, _, _)
ChunkVal(d, j, n) ==
    IF n = 0 THEN 0 ELSE 10 * ChunkVal(d, j - 1, n - 1) + (d[j] - 48)

\* 10^n for a chunk of n digits.
Pow10(n) == <<1, 10, 100, 1000, 10000, 100000, 1000000>>[n + 1]

\* The magnitude of a string of decimal digits, read from digit i on in chunks
\* of up to 6 digits (math/big reads a word's worth of digits at a time); acc
\* is the magnitude of the digits before.
RECURSIVE DecimalFrom(_, _, _)
DecimalFrom(d, i, acc) ==
    IF i > Len(d) THEN acc
    ELSE LET n == IF Len(d) - i + 1 < 6 THEN Len(d) - i + 1 ELSE 6
             next == StripZeros(MulAdd(acc, Pow10(n), ChunkVal(d, i + n - 1, n)))
         IN  IF Len(next) >= 0 THEN DecimalFrom(d, i + n, next) ELSE acc

DecimalAbs(d) == DecimalFrom(d, 1, <<>>)

\* The digits of a decimal string: what follows an optional sign.
DecimalDigits(s) ==
    IF s # <<>> /\ (s[1] = 43 \/ s[1] = 45) THEN Tail(s) ELSE s

\* new(big.Int).SetString(s, 10) succeeds: an optional sign, then digits only.
SetStringOk(s) ==
    /\ DecimalDigits(s) # <<>>
    /\ \A i \in 1..Len(DecimalDigits(s)) :
          DecimalDigits(s)[i] >= 48 /\ DecimalDigits(s)[i] <= 57

\* new(big.Int).SetString(s, 10), where it succeeds.
SetString(s) ==
    LET abs == DecimalAbs(DecimalDigits(s))
    IN  [neg |-> s[1] = 45 /\ abs # <<>>, abs |-> abs]

\* x.FillBytes(buf) panics when the magnitude does not fit the buffer.
FillBytesFits(x, n) == Len(x.abs) <= n

\* x.FillBytes(make([]byte, n)): the magnitude, big-endian, zero-extended;
\* the sign is not looked at.
FillBytes(x, n) == Zeros(n - Len(x.abs)) \o x.abs

\* big.NewInt(int64(n)).FillBytes(make([]byte, 32)) for a length or an offset.
IntWord(n) == FillBytes(NewInt(n), 32)

\* x.Int64() of a non-negative x: the low 64 bits, as 8 bytes.
Int64Of(x) ==
    LET padded == Zeros(8) \o x.abs
    IN  SubSeq(padded, Len(padded) - 7, Len(padded))

(***************************************************************************)
(* 64-bit integers, as 8 bytes                                             *)
(***************************************************************************)

\* a + n on 64 bits, wrapping around, for a small n >= 0.
RECURSIVE I64AddCarry(_, _)
I64AddCarry(a, c) ==
    IF a = <<>> THEN <<>>
    ELSE LET t == a[Len(a)] + c
             carry == t \div 256
         IN  IF carry >= 0
             THEN I64AddCarry(SubSeq(a, 1, Len(a) - 1), carry) \o <<t % 256>>
             ELSE <<>>

I64Add(a, n) == I64AddCarry(a, n)

\* a + b on 64 bits, wrapping around.
RECURSIVE I64Sum(_, _, _)
I64Sum(a, b, c) ==
    IF a = <<>> THEN <<>>
    ELSE LET t == a[Len(a)] + b[Len(b)] + c
             carry == t \div 256
         IN  IF carry >= 0
             THEN I64Sum(SubSeq(a, 1, Len(a) - 1), SubSeq(b, 1, Len(b) - 1), carry)
                      \o <<t % 256>>
             ELSE <<>>

I64Neg(a) == a[1] >= 128

\* a is in 0 .. 2^24 - 1, where the model's buffer lengths live.
I64Small(a) == \A i \in 1..5 : a[i] = 0

I64Val(a) == 65536 * a[6] + 256 * a[7] + a[8]

\* a > n, for a buffer length n.
I64Gt(a, n) ==
    IF I64Neg(a) THEN FALSE
    ELSE IF I64Small(a) THEN I64Val(a) > n
    ELSE TRUE

\* a <= b, signed.
I64Le(a, b) ==
    IF I64Neg(a) # I64Neg(b) THEN I64Neg(a)
    ELSE LET d == {i \in 1..8 : a[i] # b[i]}
         IN  IF d = {} THEN TRUE
             ELSE LET k == CHOOSE i \in d : \A j \in d : i <= j
                  IN  a[k] < b[k]

\* data[lo:hi] does not panic: 0 <= lo <= hi <= len(data).
SliceOk(data, lo, hi) ==
    /\ ~I64Neg(lo)
    /\ I64Le(lo, hi)
    /\ ~I64Gt(hi, Len(data))

\* data[lo:hi], where it does not panic.
Slice(data, lo, hi) == SubSeq(data, I64Val(lo) + 1, I64Val(hi))

(***************************************************************************)
(* Outcomes of a call                                                      *)
(***************************************************************************)

Ok(b) == [st |-> "ok", err |-> <<>>, bytes |-> b]

\* return nil, fmt.Errorf(msg)
Err(msg) == [st |-> "err", err |-> <<msg>>, bytes |-> <<>>]

\* A run-time panic: the call does not return.
Panic(msg) == [st |-> "panic", err |-> <<msg>>, bytes |-> <<>>]

\* fmt.Errorf(msg + ": %w", err) around an error; a panic passes through.
Wrap(msg, r) == IF r.st = "err" THEN [r EXCEPT !.err = <<msg>> \o r.err] ELSE r

NoResult == [st |-> "none", err |-> <<>>, bytes |-> <<>>]

(***************************************************************************)
(* interface{} values                                                      *)
(***************************************************************************)

\* The dynamic type of an interface{} value, and the value it holds.
KindOf(x) == x[1]

ValOf(x) == x[2]

StringValue(s) == <<"string", s>>

BigValue(x) == <<"*big.Int", x>>

IntValue(n) == <<"int", n>>

Int64Value(n) == <<"int64", n>>

Uint64Value(n) == <<"uint64", n>>

BoolValue(b) == <<"bool", b>>

BytesValue(b) == <<"[]byte", b>>

SliceValue(elems) == <<"[]interface{}", elems>>

StringSliceValue(strs) == <<"[]string", strs>>

(***************************************************************************)
(* The address validator and the placeholder hash                          *)
(***************************************************************************)

\* ValidateAddress without its length check.
ValidateAddressNoLength(address) ==
    IF ~HasPrefix(address, Str("0x")) THEN FALSE
    ELSE HexOk(SubSeq(address, 3, Len(address)))

ValidateAddress(address) ==
    IF ~HasPrefix(address, Str("0x")) THEN FALSE
    ELSE IF Len(address) # 42 THEN FALSE
    ELSE HexOk(SubSeq(address, 3, Len(address)))

\* hash[i%32] ^= b over the data, from 32 zero bytes; the loop is taken 32
\* steps at a time, from data[i] on (i is 1-based): these 32 steps write 32
\* different bytes of hash.
RECURSIVE XorFold(_, _, _)
XorFold(hash, data, i) ==
    IF i > Len(data) THEN hash
    ELSE LET next == SubSeq([j \in 1..32 |->
                               IF i + j - 1 <= Len(data) THEN Xor(hash[j], data[i + j - 1])
                               ELSE hash[j]], 1, 32)
         IN  IF Len(next) = 32 THEN XorFold(next, data, i + 32) ELSE hash

Keccak256(data) == HexEncodeToString(XorFold(Zeros(32), data, 1))

ERC20_TRANSFER_SELECTOR == "a9059cbb"

(***************************************************************************)
(* Value encoders                                                          *)
(***************************************************************************)

\* isDynamicType with the bytes case forgotten.
isDynamicTypeNoBytes(abiType) ==
    Contains(abiType, "[]") \/ abiType = "string"

isDynamicType(abiType) ==
    Contains(abiType, "[]") \/ abiType = "string" \/ abiType = "bytes"

\* encodeAddress taking any hexadecimal string, whatever its length.
encodeAddressAnyLength(value) ==
    IF KindOf(value) # "string" THEN Err("address must be string")
    ELSE IF ~HexOk(TrimPrefix(ValOf(value), Str("0x"))) THEN Err("invalid address format")
    ELSE Ok(Zeros(12) \o HexDecodeString(TrimPrefix(ValOf(value), Str("0x"))))

encodeAddress(value) ==
    IF KindOf(value) # "string" THEN Err("address must be string")
    ELSE IF ~ValidateAddress(ValOf(value)) THEN Err("invalid address format")
    ELSE Ok(Zeros(12) \o HexDecodeString(TrimPrefix(ValOf(value), Str("0x"))))

\* The switch of encodeUint has a case for the value's dynamic type.
uintCase(value) == KindOf(value) \in {"*big.Int", "string", "int", "int64", "uint64"}

\* bigIntValue after the switch of encodeUint, where no case returned.
uintBig(value) ==
    IF KindOf(value) = "*big.Int" THEN ValOf(value)
    ELSE IF KindOf(value) = "string" THEN SetString(ValOf(value))
    ELSE NewInt(ValOf(value))

encodeUint(abiType, value) ==
    IF ~uintCase(value) THEN Err("unsupported uint type")
    ELSE IF KindOf(value) = "string" /\ ~SetStringOk(ValOf(value)) THEN Err("invalid uint string")
    ELSE IF ~FillBytesFits(uintBig(value), 32)
         THEN Panic("math/big: buffer too small to fit value")
    ELSE Ok(FillBytes(uintBig(value), 32))

encodeInt(abiType, value) == encodeUint(abiType, value)

\* strconv.ParseBool: the strings it takes for true and for false.
ParseBoolTrue == {Str("1"), Str("t"), Str("T"), Str("TRUE"), Str("true"), Str("True")}

ParseBoolFalse == {Str("0"), Str("f"), Str("F"), Str("FALSE"), Str("false"), Str("False")}

\* encodeBool setting the first byte of the word instead of the last.
encodeBoolFirstByte(value) ==
    IF KindOf(value) = "bool"
    THEN Ok(<<IF ValOf(value) THEN 1 ELSE 0>> \o Zeros(31))
    ELSE Err("unsupported bool type")

encodeBool(value) ==
    IF KindOf(value) = "bool"
    THEN Ok(Zeros(31) \o <<IF ValOf(value) THEN 1 ELSE 0>>)
    ELSE IF KindOf(value) = "string"
    THEN IF ValOf(value) \in ParseBoolTrue THEN Ok(Zeros(31) \o <<1>>)
         ELSE IF ValOf(value) \in ParseBoolFalse THEN Ok(Zeros(32))
         ELSE Err("invalid bool string")
    ELSE Err("unsupported bool type")

\* padBytes adding a whole block to data that is already aligned.
padBytesAlways(data, blockSize) == data \o Zeros(blockSize - (Len(data) % blockSize))

\* padBytes adding nothing.
padBytesNone(data, blockSize) == data

padBytes(data, blockSize) ==
    LET remainder == Len(data) % blockSize
    IN  IF remainder = 0 THEN data
        ELSE data \o Zeros(blockSize - remainder)

encodeString(value) ==
    IF KindOf(value) # "string" THEN Err("string value must be string type")
    ELSE Ok(IntWord(Len(ValOf(value))) \o padBytes(ValOf(value), 32))

encodeBytes(value) ==
    IF KindOf(value) = "[]byte"
    THEN Ok(IntWord(Len(ValOf(value))) \o padBytes(ValOf(value), 32))
    ELSE IF KindOf(value) = "string"
    THEN IF ~HexOk(TrimPrefix(ValOf(value), Str("0x"))) THEN Err("invalid hex string")
         ELSE LET bytes == HexDecodeString(TrimPrefix(ValOf(value), Str("0x")))
              IN  Ok(IntWord(Len(bytes)) \o padBytes(bytes, 32))
    ELSE Err("bytes value must be []byte or hex string")

\* elements of encodeArray: the slice's elements as interface{} values.
arrayElements(value) ==
    IF KindOf(value) = "[]string"
    THEN [i \in 1..Len(ValOf(value)) |-> StringValue(ValOf(value)[i])]
    ELSE ValOf(value)

RECURSIVE encodeValue(_, _)
RECURSIVE encodeElements(_, _, _, _)

\* The loop of encodeArray from element i on, acc the elements encoded so far.
encodeElements(elementType, elements, i, acc) ==
    IF i > Len(elements) THEN Ok(acc)
    ELSE LET encoded == encodeValue(elementType, elements[i])
         IN  IF encoded.st # "ok" THEN Wrap("failed to encode array element", encoded)
             ELSE encodeElements(elementType, elements, i + 1, acc \o encoded.bytes)

encodeArray(abiType, value) ==
    IF KindOf(value) \notin {"[]interface{}", "[]string"} THEN Err("array value must be slice")
    ELSE LET encodedElements ==
                 encodeElements(TrimSuffix(abiType, "[]"), arrayElements(value), 1, <<>>)
         IN  IF encodedElements.st # "ok" THEN encodedElements
             ELSE Ok(IntWord(Len(arrayElements(value))) \o encodedElements.bytes)

encodeValue(abiType, value) ==
    IF abiType = "address" THEN encodeAddress(value)
    ELSE IF HasPrefix(abiType, "uint") THEN encodeUint(abiType, value)
    ELSE IF HasPrefix(abiType, "int") THEN encodeInt(abiType, value)
    ELSE IF abiType = "bool" THEN encodeBool(value)
    ELSE IF abiType = "string" THEN encodeString(value)
    ELSE IF abiType = "bytes" THEN encodeBytes(value)
    ELSE IF HasSuffix(abiType, "[]") THEN encodeArray(abiType, value)
    ELSE Err("unsupported type")

(***************************************************************************)
(* The call encoder                                                        *)
(***************************************************************************)

ABIParam(name, type) == [Name |-> name, Type |-> type]

\* strings.Join(paramTypes, ",") from parameter i on.
RECURSIVE JoinTypes(_, _)
JoinTypes(ps, i) ==
    IF i > Len(ps) THEN ""
    ELSE IF i = Len(ps) THEN ps[i].Type
    ELSE ps[i].Type \o "," \o JoinTypes(ps, i + 1)

createFunctionSignature(name, ps) == name \o "(" \o JoinTypes(ps, 1) \o ")"

\* The arity check testing only for too few values.
countTooFew(ps, vs) == Len(ps) > Len(vs)

\* The arity check of encodeParameters.
countMismatch(ps, vs) == Len(ps) # Len(vs)

\* dynamicOffset left where it was after a dynamic value.
advanceOffsetStuck(dynamicOffset, dynamicEncoded) == dynamicOffset

\* dynamicOffset += len(dynamicEncoded)
advanceOffset(dynamicOffset, dynamicEncoded) == dynamicOffset + Len(dynamicEncoded)

\* The locals before the loop with the offsets counted from the start of
\* the tail.
encodeStartNoHead(ps) ==
    [st |-> "ok", err |-> <<>>, encoded |-> <<>>, dynamicData |-> <<>>,
     dynamicOffset |-> 0]

\* The locals of encodeParameters before its loop.
encodeStart(ps) ==
    [st |-> "ok", err |-> <<>>, encoded |-> <<>>, dynamicData |-> <<>>,
     dynamicOffset |-> Len(ps) * 32]

\* The loop of encodeParameters from parameter i on; s holds encoded,
\* dynamicData and dynamicOffset.  The result holds the locals at the return.
RECURSIVE encodeLoop(_, _, _, _)
encodeLoop(ps, vs, i, s) ==
    IF i > Len(ps) THEN s
    ELSE LET r == encodeValue(ps[i].Type, vs[i])
         IN  IF isDynamicType(ps[i].Type)
             THEN IF r.st # "ok"
                  THEN [s EXCEPT !.st = r.st,
                                 !.err = Wrap("failed to encode dynamic parameter", r).err,
                                 !.encoded = @ \o IntWord(s.dynamicOffset)]
                  ELSE encodeLoop(ps, vs, i + 1,
                           [s EXCEPT !.encoded = @ \o IntWord(s.dynamicOffset),
                                     !.dynamicData = @ \o r.bytes,
                                     !.dynamicOffset = advanceOffset(@, r.bytes)])
             ELSE IF r.st # "ok"
                  THEN [s EXCEPT !.st = r.st,
                                 !.err = Wrap("failed to encode static parameter", r).err]
                  ELSE encodeLoop(ps, vs, i + 1, [s EXCEPT !.encoded = @ \o r.bytes])

\* encodeParameters, as its locals at the return.
encodeLocals(ps, vs) ==
    IF countMismatch(ps, vs)
    THEN [st |-> "err", err |-> <<"parameter count mismatch">>, encoded |-> <<>>,
          dynamicData |-> <<>>, dynamicOffset |-> 0]
    ELSE encodeLoop(ps, vs, 1, encodeStart(ps))

\* What encodeParameters returns: append(encoded, dynamicData...) or the error.
encodeReturn(l) ==
    [st |-> l.st, err |-> l.err,
     bytes |-> IF l.st = "ok" THEN l.encoded \o l.dynamicData ELSE <<>>]

encodeParameters(ps, vs) == encodeReturn(encodeLocals(ps, vs))

\* Keccak256([]byte(signature))[:8]
selectorOf(signature) == SubSeq(Keccak256(Str(signature)), 1, 8)

\* EncodeFunctionCall around the outcome of its encodeParameters call.
encodeCallReturn(name, ps, encodedParams) ==
    LET selector == selectorOf(createFunctionSignature(name, ps))
    IN  IF ~HexOk(selector) THEN Err("failed to decode selector")
        ELSE IF encodedParams.st # "ok"
        THEN Wrap("failed to encode parameters", encodedParams)
        ELSE Ok(HexDecodeString(selector) \o encodedParams.bytes)

EncodeFunctionCall(name, ps, vs) == encodeCallReturn(name, ps, encodeParameters(ps, vs))

(***************************************************************************)
(* The token helpers                                                       *)
(***************************************************************************)

ERC20_TRANSFER_FROM_SELECTOR == "23b872dd"

ERC20_APPROVE_SELECTOR == "095ea7b3"

ERC20_BALANCE_OF_SELECTOR == "70a08231"

ERC20_ALLOWANCE_SELECTOR == "dd62ed3e"

ERC20_TOTAL_SUPPLY_SELECTOR == "18160ddd"

ERC721_TRANSFER_FROM_SELECTOR == "23b872dd"

ERC721_SAFE_TRANSFER_FROM_SELECTOR == "42842e0e"

ERC721_APPROVE_SELECTOR == "095ea7b3"

ERC721_SET_APPROVAL_FOR_ALL_SELECTOR == "a22cb465"

ERC721_OWNER_OF_SELECTOR == "6352211e"

ERC721_BALANCE_OF_SELECTOR == "70a08231"

ERC721_GET_APPROVED_SELECTOR == "081812fc"

ERC721_IS_APPROVED_FOR_ALL_SELECTOR == "e985e9c5"

ERC721_TOKEN_URI_SELECTOR == "c87b56dd"

\* selector, _ := hex.DecodeString(SELECTOR)
selectorBytes(selector) == HexDecodeString(Str(selector))

\* fmt.Sprintf("%064s", s): s padded on the left with the character 0 to 64
\* characters (the 0 flag pads a string with zeros).
Sprintf064s(s) == IF Len(s) >= 64 THEN s ELSE [i \in 1..(64 - Len(s)) |-> 48] \o s

\* hex.DecodeString(fmt.Sprintf("%064s", strings.TrimPrefix(address, "0x")))
\* for an address ValidateAddress has accepted.
addressBytes32(address) == HexDecodeString(Sprintf064s(TrimPrefix(address, Str("0x"))))

\* The end of a helper: the words after the selector, each amount written
\* with FillBytes into 32 bytes, which panics for an amount that does not fit.
helperReturn(selector, amounts, words) ==
    IF \E i \in 1..Len(amounts) : ~FillBytesFits(amounts[i], 32)
    THEN Panic("math/big: buffer too small to fit value")
    ELSE Ok(selectorBytes(selector) \o words)

ERC20Token_EncodeTransfer(to, amount) ==
    IF ~ValidateAddress(to) THEN Err("invalid recipient address")
    ELSE helperReturn(ERC20_TRANSFER_SELECTOR, <<amount>>,
                      addressBytes32(to) \o FillBytes(amount, 32))

ERC20Token_EncodeTransferFrom(from, to, amount) ==
    IF ~ValidateAddress(from) THEN Err("invalid sender address")
    ELSE IF ~ValidateAddress(to) THEN Err("invalid recipient address")
    ELSE helperReturn(ERC20_TRANSFER_FROM_SELECTOR, <<amount>>,
                      addressBytes32(from) \o addressBytes32(to) \o FillBytes(amount, 32))

ERC20Token_EncodeApprove(spender, amount) ==
    IF ~ValidateAddress(spender) THEN Err("invalid spender address")
    ELSE helperReturn(ERC20_APPROVE_SELECTOR, <<amount>>,
                      addressBytes32(spender) \o FillBytes(amount, 32))

ERC20Token_EncodeBalanceOf(owner) ==
    IF ~ValidateAddress(owner) THEN Err("invalid owner address")
    ELSE helperReturn(ERC20_BALANCE_OF_SELECTOR, <<>>, addressBytes32(owner))

ERC20Token_EncodeAllowance(owner, spender) ==
    IF ~ValidateAddress(owner) THEN Err("invalid owner address")
    ELSE IF ~ValidateAddress(spender) THEN Err("invalid spender address")
    ELSE helperReturn(ERC20_ALLOWANCE_SELECTOR, <<>>,
                      addressBytes32(owner) \o addressBytes32(spender))

ERC20Token_EncodeTotalSupply == helperReturn(ERC20_TOTAL_SUPPLY_SELECTOR, <<>>, <<>>)

ERC721Token_EncodeTransferFrom(from, to, tokenId) ==
    IF ~ValidateAddress(from) THEN Err("invalid sender address")
    ELSE IF ~ValidateAddress(to) THEN Err("invalid recipient address")
    ELSE helperReturn(ERC721_TRANSFER_FROM_SELECTOR, <<tokenId>>,
                      addressBytes32(from) \o addressBytes32(to) \o FillBytes(tokenId, 32))

\* The data payload is appended as a length word and the raw bytes, when it
\* is not empty.
ERC721Token_EncodeSafeTransferFrom(from, to, tokenId, data) ==
    IF ~ValidateAddress(from) THEN Err("invalid sender address")
    ELSE IF ~ValidateAddress(to) THEN Err("invalid recipient address")
    ELSE helperReturn(ERC721_SAFE_TRANSFER_FROM_SELECTOR, <<tokenId>>,
                      addressBytes32(from) \o addressBytes32(to) \o FillBytes(tokenId, 32)
                      \o (IF Len(data) > 0 THEN IntWord(Len(data)) \o data ELSE <<>>))

ERC721Token_EncodeApprove(to, tokenId) ==
    IF ~ValidateAddress(to) THEN Err("invalid recipient address")
    ELSE helperReturn(ERC721_APPROVE_SELECTOR, <<tokenId>>,
                      addressBytes32(to) \o FillBytes(tokenId, 32))

ERC721Token_EncodeSetApprovalForAll(operator, approved) ==
    IF ~ValidateAddress(operator) THEN Err("invalid operator address")
    ELSE helperReturn(ERC721_SET_APPROVAL_FOR_ALL_SELECTOR, <<>>,
                      addressBytes32(operator) \o Zeros(31) \o <<IF approved THEN 1 ELSE 0>>)

ERC721Token_EncodeOwnerOf(tokenId) ==
    helperReturn(ERC721_OWNER_OF_SELECTOR, <<tokenId>>, FillBytes(tokenId, 32))

ERC721Token_EncodeBalanceOf(owner) ==
    IF ~ValidateAddress(owner) THEN Err("invalid owner address")
    ELSE helperReturn(ERC721_BALANCE_OF_SELECTOR, <<>>, addressBytes32(owner))

ERC721Token_EncodeGetApproved(tokenId) ==
    helperReturn(ERC721_GET_APPROVED_SELECTOR, <<tokenId>>, FillBytes(tokenId, 32))

ERC721Token_EncodeIsApprovedForAll(owner, operator) ==
    IF ~ValidateAddress(owner) THEN Err("invalid owner address")
    ELSE IF ~ValidateAddress(operator) THEN Err("invalid operator address")
    ELSE helperReturn(ERC721_IS_APPROVED_FOR_ALL_SELECTOR, <<>>,
                      addressBytes32(owner) \o addressBytes32(operator))

ERC721Token_EncodeTokenURI(tokenId) ==
    helperReturn(ERC721_TOKEN_URI_SELECTOR, <<tokenId>>, FillBytes(tokenId, 32))

\* A call of a helper by its name, with its arguments as values.
CallHelper(helper, a) ==
    IF helper = "ERC20Token.EncodeTransfer"
    THEN ERC20Token_EncodeTransfer(ValOf(a[1]), ValOf(a[2]))
    ELSE IF helper = "ERC20Token.EncodeTransferFrom"
    THEN ERC20Token_EncodeTransferFrom(ValOf(a[1]), ValOf(a[2]), ValOf(a[3]))
    ELSE IF helper = "ERC20Token.EncodeApprove"
    THEN ERC20Token_EncodeApprove(ValOf(a[1]), ValOf(a[2]))
    ELSE IF helper = "ERC20Token.EncodeBalanceOf"
    THEN ERC20Token_EncodeBalanceOf(ValOf(a[1]))
    ELSE IF helper = "ERC20Token.EncodeAllowance"
    THEN ERC20Token_EncodeAllowance(ValOf(a[1]), ValOf(a[2]))
    ELSE IF helper = "ERC20Token.EncodeTotalSupply"
    THEN ERC20Token_EncodeTotalSupply
    ELSE IF helper = "ERC721Token.EncodeTransferFrom"
    THEN ERC721Token_EncodeTransferFrom(ValOf(a[1]), ValOf(a[2]), ValOf(a[3]))
    ELSE IF helper = "ERC721Token.EncodeSafeTransferFrom"
    THEN ERC721Token_EncodeSafeTransferFrom(ValOf(a[1]), ValOf(a[2]), ValOf(a[3]), ValOf(a[4]))
    ELSE IF helper = "ERC721Token.EncodeApprove"
    THEN ERC721Token_EncodeApprove(ValOf(a[1]), ValOf(a[2]))
    ELSE IF helper = "ERC721Token.EncodeSetApprovalForAll"
    THEN ERC721Token_EncodeSetApprovalForAll(ValOf(a[1]), ValOf(a[2]))
    ELSE IF helper = "ERC721Token.EncodeOwnerOf"
    THEN ERC721Token_EncodeOwnerOf(ValOf(a[1]))
    ELSE IF helper = "ERC721Token.EncodeBalanceOf"
    THEN ERC721Token_EncodeBalanceOf(ValOf(a[1]))
    ELSE IF helper = "ERC721Token.EncodeGetApproved"
    THEN ERC721Token_EncodeGetApproved(ValOf(a[1]))
    ELSE IF helper = "ERC721Token.EncodeIsApprovedForAll"
    THEN ERC721Token_EncodeIsApprovedForAll(ValOf(a[1]), ValOf(a[2]))
    ELSE ERC721Token_EncodeTokenURI(ValOf(a[1]))

(***************************************************************************)
(* Units                                                                   *)
(***************************************************************************)

\* The decimal digits of a natural number.
RECURSIVE NatString(_)
NatString(n) ==
    IF n < 10 THEN <<48 + n>> ELSE Append(NatString(n \div 10), 48 + (n % 10))

\* x.String() of a *big.Int holding n.
IntString(n) == IF n < 0 THEN <<45>> \o NatString(0 - n) ELSE NatString(n)

\* new(big.Int).Exp(big.NewInt(10), big.NewInt(int64(decimals)), nil)
RECURSIVE Exp10(_)
Exp10(decimals) == IF decimals <= 0 THEN 1 ELSE 10 * Exp10(decimals - 1)

\* strings.TrimRight(s, "0")
TrimRightZeros(s) ==
    LET kept == {i \in 1..Len(s) : s[i] # 48}
    IN  IF kept = {} THEN <<>>
        ELSE SubSeq(s, 1, CHOOSE i \in kept : \A k \in kept : k <= i)

\* s with zeros written before it up to n characters.
PadLeftZeros(s, n) == IF Len(s) >= n THEN s ELSE [i \in 1..(n - Len(s)) |-> 48] \o s

\* s with zeros written after it up to n characters.
PadRightZeros(s, n) == IF Len(s) >= n THEN s ELSE s \o [i \in 1..(n - Len(s)) |-> 48]

\* FormatUnits(amount, decimals). Div and Mod of math/big are Euclidean: the
\* remainder is never negative.
FormatUnits(amount, decimals) ==
    LET divisor == Exp10(decimals)
        integerPart == amount \div divisor
        remainder == amount % divisor
        fractionalStr == TrimRightZeros(PadLeftZeros(IntString(remainder), decimals))
    IN  IF remainder = 0 THEN IntString(integerPart)
        ELSE IF fractionalStr = <<>> THEN IntString(integerPart)
        ELSE IntString(integerPart) \o <<46>> \o fractionalStr

\* The places of the separator in s.
DotsOf(s) == {i \in 1..Len(s) : s[i] = 46}

\* strings.Split(amount, ".")[0] and [1], for an amount with at most one
\* separator.
IntegerPartOf(amount) ==
    IF DotsOf(amount) = {} THEN amount
    ELSE SubSeq(amount, 1, (CHOOSE i \in DotsOf(amount) : TRUE) - 1)

FractionalPartOf(amount) ==
    IF DotsOf(amount) = {} THEN <<>>
    ELSE SubSeq(amount, (CHOOSE i \in DotsOf(amount) : TRUE) + 1, Len(amount))

\* ParseUnits(amount, decimals): what it returns, as a status, an error and
\* the *big.Int.
ParseUnits(amount, decimals) ==
    IF Cardinality(DotsOf(amount)) + 1 > 2
    THEN [st |-> "err", err |-> <<"invalid amount format">>, value |-> NewInt(0)]
    ELSE LET cut == IF Len(FractionalPartOf(amount)) > decimals
                    THEN SubSeq(FractionalPartOf(amount), 1, decimals)
                    ELSE FractionalPartOf(amount)
             fullAmount == IntegerPartOf(amount) \o PadRightZeros(cut, decimals)
         IN  IF ~SetStringOk(fullAmount)
             THEN [st |-> "err", err |-> <<"failed to parse amount">>, value |-> NewInt(0)]
             ELSE [st |-> "ok", err |-> <<>>, value |-> SetString(fullAmount)]

(***************************************************************************)
(* Transactions                                                            *)
(***************************************************************************)

\* A uint64 as its 8 big-endian bytes.
Uint64Bytes(n) == Zeros(8 - Len(NatBytes(n))) \o NatBytes(n)

\* big.NewInt(int64(gas)) for a uint64 gas: the conversion keeps the 64 bits
\* and reads them as two's complement.
NewIntOfInt64(gas) ==
    IF gas[1] >= 128
    THEN [neg |-> TRUE, abs |-> StripZeros(I64Add([i \in 1..8 |-> 255 - gas[i]], 1))]
    ELSE [neg |-> FALSE, abs |-> StripZeros(gas)]

\* new(big.Int).Mul(x, y) for a y that is not negative and at most 10^6.
Mul(x, y) ==
    LET abs == StripZeros(MulAdd(x.abs, y, 0))
    IN  [neg |-> abs # <<>> /\ x.neg, abs |-> abs]

\* tx.CalculateFee()
CalculateFee(tx) == Mul(NewIntOfInt64(tx.Gas), tx.GasPrice)

(***************************************************************************)
(* The result decoder                                                      *)
(***************************************************************************)

\* What a decoder returns: the value, the new offset, the error.
Decoded(value, newOffset) == [st |-> "ok", err |-> <<>>, value |-> value, offset |-> newOffset]

DecodeErr(msg) == [st |-> "err", err |-> <<msg>>, value |-> BoolValue(FALSE), offset |-> 0]

DecodePanic(msg) == [st |-> "panic", err |-> <<msg>>, value |-> BoolValue(FALSE), offset |-> 0]

\* decodeAddress reading the 20 bytes one place too early.
decodeAddressShifted(data, offset) ==
    IF offset + 32 > Len(data) THEN DecodeErr("insufficient data for address")
    ELSE Decoded(StringValue(Str("0x")
                     \o HexEncodeToString(SubSeq(data, offset + 12, offset + 31))),
                 offset + 32)

decodeAddress(data, offset) ==
    IF offset + 32 > Len(data) THEN DecodeErr("insufficient data for address")
    ELSE Decoded(StringValue(Str("0x")
                     \o HexEncodeToString(SubSeq(data, offset + 13, offset + 32))),
                 offset + 32)

decodeUint(data, offset) ==
    IF offset + 32 > Len(data) THEN DecodeErr("insufficient data for uint")
    ELSE Decoded(BigValue(SetBytes(SubSeq(data, offset + 1, offset + 32))), offset + 32)

\* decodeBool testing the first byte of the word instead of the last.
decodeBoolFirstByte(data, offset) ==
    IF offset + 32 > Len(data) THEN DecodeErr("insufficient data for bool")
    ELSE Decoded(BoolValue(data[offset + 1] # 0), offset + 32)

decodeBool(data, offset) ==
    IF offset + 32 > Len(data) THEN DecodeErr("insufficient data for bool")
    ELSE Decoded(BoolValue(data[offset + 32] # 0), offset + 32)

decodeString(data, offset) ==
    IF offset + 32 > Len(data) THEN DecodeErr("insufficient data for string offset")
    ELSE
    LET stringOffset == Int64Of(SetBytes(SubSeq(data, offset + 1, offset + 32)))
        contentStart == I64Add(stringOffset, 32)
    IN  IF I64Gt(contentStart, Len(data))
        THEN DecodeErr("insufficient data for string length")
        ELSE IF ~SliceOk(data, stringOffset, contentStart)
        THEN DecodePanic("slice bounds out of range")
        ELSE
        LET length == Int64Of(SetBytes(Slice(data, stringOffset, contentStart)))
            contentEnd == I64Sum(contentStart, length, 0)
        IN  IF I64Gt(contentEnd, Len(data))
            THEN DecodeErr("insufficient data for string content")
            ELSE IF ~SliceOk(data, contentStart, contentEnd)
            THEN DecodePanic("slice bounds out of range")
            ELSE Decoded(StringValue(Slice(data, contentStart, contentEnd)), offset + 32)

decodeValue(abiType, data, offset) ==
    IF abiType = "address" THEN decodeAddress(data, offset)
    ELSE IF HasPrefix(abiType, "uint") THEN decodeUint(data, offset)
    ELSE IF abiType = "bool" THEN decodeBool(data, offset)
    ELSE IF abiType = "string" THEN decodeString(data, offset)
    ELSE DecodeErr("unsupported decode type")

\* What DecodeFunctionResult returns: the results or the error.
Results(results) == [st |-> "ok", err |-> <<>>, results |-> results]

ResultsErr(st, err) == [st |-> st, err |-> err, results |-> <<>>]

NoResults == [st |-> "none", err |-> <<>>, results |-> <<>>]

\* The empty-data check left out.
emptyDataNever(data) == FALSE

\* The len(data) == 0 check of DecodeFunctionResult.
emptyData(data) == Len(data) = 0

\* The loop of DecodeFunctionResult from type i on.
RECURSIVE decodeLoop(_, _, _, _, _)
decodeLoop(abiTypes, data, i, offset, results) ==
    IF i > Len(abiTypes) THEN Results(results)
    ELSE IF offset + 32 > Len(data) THEN ResultsErr("err", <<"insufficient data for type">>)
    ELSE LET d == decodeValue(abiTypes[i], data, offset)
         IN  IF d.st = "err" THEN ResultsErr("err", <<"failed to decode type">> \o d.err)
             ELSE IF d.st = "panic" THEN ResultsErr("panic", d.err)
             ELSE decodeLoop(abiTypes, data, i + 1, d.offset, Append(results, d.value))

DecodeFunctionResult(abiTypes, data) ==
    IF emptyData(data) THEN ResultsErr("err", <<"empty data">>)
    ELSE decodeLoop(abiTypes, data, 1, 0, <<>>)

(***************************************************************************)
(* Inputs                                                                  *)
(***************************************************************************)

\* The longest parameter list a caller builds.
MaxParams == 3

Addr1 == Str("0x0000000000000000000000000000000000000001")

AddrMixed == Str("0x00000000000000000000000000000000000000aB")

\* 2^256 - 1 and 2^256
Max256 == [neg |-> FALSE, abs |-> [i \in 1..32 |-> 255]]

Pow256 == [neg |-> FALSE, abs |-> <<1>> \o Zeros(32)]

Long33 == Str("abcdefghijklmnopqrstuvwxyz0123456")

\* The (type, value) pairs a caller builds its calls from.
CallPairs ==
    { <<"address", StringValue(Addr1)>>,
      <<"address", StringValue(AddrMixed)>>,
      <<"uint256", BigValue(NewInt(1000000))>>,
      <<"uint256", BigValue(Max256)>>,
      <<"bool", BoolValue(TRUE)>>,
      <<"string", StringValue(<<>>)>>,
      <<"string", StringValue(Long33)>>,
      <<"bytes", BytesValue(<<1, 2, 3>>)>>,
      <<"address[]", SliceValue(<<StringValue(Addr1), StringValue(AddrMixed)>>)>>,
      <<"uint256[]", BigValue(NewInt(7))>> }

\* A value passed beyond the parameters.
ExtraValues == {BoolValue(TRUE)}

FuncNames == {"transfer", "f"}

\* k words holding 1.
RECURSIVE Words(_)
Words(k) == IF k = 0 THEN <<>> ELSE IntWord(1) \o Words(k - 1)

\* The longest type list given to DecodeFunctionResult directly.
MaxTypes == 2

\* make(chan Event, 100)
ChanCap == 100

\* The number of subscriptions made, and of clock values their IDs are made
\* from.
MaxSubs == 2

\* The number of filters made.
MaxFilters == 2

\* The number of ProcessEvent calls that are counted.
MaxCounted == 3

\* The number of calls made on the monitor, the subscriptions and the filters
\* besides ProcessEvent, the receives from the channels included: where the
\* channels fill up, where the calls are made one after another with at most
\* MaxCounted events, and where two threads race.
MaxCalls == 2

MaxLifecycleCalls == 4

MaxRaceCalls == 3

\* The number of ProcessEvent calls of the thread that races with the others.
MaxRaceEvents == 2

\* The number of first ProcessEvent calls whose events vary.
MaxVaried == 1

\* The number of handlers added for a signature.
MaxHandlers == 1

\* The number of builder calls made on a filter.
MaxFilterCalls == 2

\* The largest magnitude of an amount given to FormatUnits.
MaxAmount == 120

\* The largest number of decimals given to FormatUnits.
MaxDecimals == 2

\* The largest small gas price of a transaction.
MaxGasPrice == 3

\* A word of 32 bytes 0xff, and the word of 2^64.
WordFF == [i \in 1..32 |-> 255]

Word2p64 == Zeros(23) \o <<1>> \o Zeros(8)

\* Buffers for a string result: a well-formed one, and ones whose offset word
\* or length word points outside the buffer.
StringData ==
    { IntWord(32) \o IntWord(2) \o padBytes(Str("hi"), 32),
      IntWord(0),
      IntWord(64),
      IntWord(32) \o IntWord(40),
      WordFF,
      IntWord(32) \o WordFF,
      Word2p64 }

\* The buffers and the type lists given to DecodeFunctionResult directly.
DataSet == {Words(k) : k \in 0..MaxTypes} \cup StringData

DecodeTypes ==
    { "address", "uint256", "uint8", "bool", "string",
      "int256", "bytes", "uint256[]", "address[]", "bytes32", "tuple" }

TypeLists == UNION {[1..n -> DecodeTypes] : n \in 0..MaxTypes}

\* n bytes c.
Rep(c, n) == [i \in 1..n |-> c]

AddrUpper == Str("0xABCDEFABCDEFABCDEFABCDEFABCDEFABCDEFABCD")

\* The strings given to ValidateAddress, and to encodeValue as addresses:
\* addresses in lower, mixed and upper case, and strings that are too short,
\* too long, of odd length, not hexadecimal, or without the 0x prefix.
AddressInputs ==
    { Addr1, AddrMixed, AddrUpper,
      <<>>, Str("0x"), Str("0x01"),
      Str("0x") \o Rep(49, 38), Str("0x") \o Rep(49, 39), Str("0x") \o Rep(49, 41),
      Str("0x") \o Rep(49, 42),
      Str("0x") \o Rep(49, 39) \o Str("g"), Str("0x") \o Str("G") \o Rep(49, 39),
      Str("0x") \o Rep(49, 20) \o Str(" ") \o Rep(49, 19),
      Str("0X") \o Rep(49, 40), Str("00") \o Rep(49, 40), Rep(49, 40), Rep(49, 42),
      Str("1x") \o Rep(49, 40) }

\* The types and the values given to encodeValue directly.
ValueTypes ==
    { "address", "uint256", "uint8", "int256", "bool", "string", "bytes",
      "address[]", "uint256[]", "bool[]", "string[]",
      "uint256[3]", "bytes32", "uintx", "integer", "tuple", "" }

ValueInputs ==
    { StringValue(Addr1), StringValue(AddrMixed), StringValue(Str("0x01")),
      StringValue(Str("12345")), StringValue(Str("-5")), StringValue(Str("true")),
      StringValue(<<>>), StringValue(Str("hi")), StringValue(Long33),
      StringValue(Str("18446744073709551616")),
      BigValue(NewInt(0)), BigValue(NewInt(1000000)), BigValue(NewInt(-5)),
      BigValue(Max256), BigValue(Pow256), BigValue([Pow256 EXCEPT !.neg = TRUE]),
      IntValue(5), IntValue(-5), Int64Value(-5), Int64Value(7), Uint64Value(9),
      BoolValue(TRUE), BoolValue(FALSE),
      BytesValue(<<>>), BytesValue(<<1, 2, 3>>), BytesValue(Zeros(31) \o <<9>>),
      SliceValue(<<>>), SliceValue(<<StringValue(Addr1), StringValue(AddrMixed)>>),
      SliceValue(<<BigValue(NewInt(1)), BigValue(NewInt(2))>>),
      SliceValue(<<BoolValue(TRUE), BoolValue(FALSE)>>),
      StringSliceValue(<<Str("hi"), <<>>>>), StringSliceValue(<<Addr1>>) }
    \cup {StringValue(address) : address \in AddressInputs}
    \cup {StringValue(Rep(97, 32)), BytesValue(Rep(7, 33)), BytesValue(Rep(7, 64))}

NoDecoded == [st |-> "none", err |-> <<>>, value |-> BoolValue(FALSE), offset |-> 0]

NoValidation == [address |-> <<>>, ok |-> FALSE]

NoToken == [helper |-> "", args |-> <<>>, r |-> NoResult]

NoUnits ==
    [amount |-> 0, decimals |-> 0, text |-> <<>>,
     parsed |-> [st |-> "none", err |-> <<>>, value |-> NewInt(0)]]

\* The amounts and the decimals given to FormatUnits.
Amounts == (0 - MaxAmount)..MaxAmount

Decimals == 0..MaxDecimals

NoFee == [tx |-> [Gas |-> Zeros(8), GasPrice |-> 0], r |-> NewInt(0)]

\* The gas limits of the transactions: small ones and the ones around 2^63
\* and 2^64.
Gases ==
    {Uint64Bytes(0), Uint64Bytes(1), Uint64Bytes(21000),
     <<127>> \o Rep(255, 7), <<128>> \o Zeros(7), <<128>> \o Zeros(6) \o <<1>>,
     <<200>> \o Zeros(7), Rep(255, 7) \o <<254>>, Rep(255, 8)}

\* The gas prices of the transactions, in wei.
GasPrices == 0..MaxGasPrice \cup {1000000}

Transactions == [Gas : Gases, GasPrice : GasPrices]

\* The addresses and the amounts given to the token helpers.
TokenAddresses == {Addr1, AddrUpper, Str("0x01")}

TokenAmounts == {NewInt(1), Max256, Pow256}

TokenData == {<<>>, <<1, 2, 3>>, Rep(7, 32)}

\* The token helper calls: a helper and its arguments.
TokenCalls ==
    {<<h, <<StringValue(a), BigValue(n)>> >> :
        h \in {"ERC20Token.EncodeTransfer", "ERC20Token.EncodeApprove",
               "ERC721Token.EncodeApprove"},
        a \in TokenAddresses, n \in TokenAmounts}
    \cup {<<h, <<StringValue(a), StringValue(b), BigValue(n)>> >> :
        h \in {"ERC20Token.EncodeTransferFrom", "ERC721Token.EncodeTransferFrom"},
        a \in TokenAddresses, b \in TokenAddresses, n \in TokenAmounts}
    \cup {<<"ERC721Token.EncodeSafeTransferFrom",
            <<StringValue(a), StringValue(b), BigValue(n), BytesValue(d)>> >> :
        a \in TokenAddresses, b \in TokenAddresses, n \in TokenAmounts, d \in TokenData}
    \cup {<<h, <<StringValue(a)>> >> :
        h \in {"ERC20Token.EncodeBalanceOf", "ERC721Token.EncodeBalanceOf"},
        a \in TokenAddresses}
    \cup {<<h, <<StringValue(a), StringValue(b)>> >> :
        h \in {"ERC20Token.EncodeAllowance", "ERC721Token.EncodeIsApprovedForAll"},
        a \in TokenAddresses, b \in TokenAddresses}
    \cup {<<"ERC721Token.EncodeSetApprovalForAll", <<StringValue(a), BoolValue(b)>> >> :
        a \in TokenAddresses, b \in BOOLEAN}
    \cup {<<h, <<BigValue(n)>> >> :
        h \in {"ERC721Token.EncodeOwnerOf", "ERC721Token.EncodeGetApproved",
               "ERC721Token.EncodeTokenURI"},
        n \in TokenAmounts}
    \cup {<<"ERC20Token.EncodeTotalSupply", <<>> >>}

NoVal == [type |-> "", value |-> BoolValue(FALSE), r |-> NoResult]

NoLocals == [st |-> "none", err |-> <<>>, encoded |-> <<>>, dynamicData |-> <<>>,
             dynamicOffset |-> 0]

\* The types of a parameter list.
TypesOf(ps) == [i \in 1..Len(ps) |-> ps[i].Type]

(***************************************************************************)
(* The event monitor                                                       *)
(***************************************************************************)

AddrA == Str("0xABCDEFabcdefABCDEFabcdefABCDEFabcdefABCD")

AddrB == Str("0x1111111111111111111111111111111111111111")

\* NewEventFilter()
EmptyFilter == [Address |-> <<>>, Topics |-> <<>>]

\* The events given to ProcessEvent.
TransferLog == [Address |-> Str("0xAA"), Topics |-> <<Str("0xddf2")>>, Data |-> Str("0x01")]

OtherLog == [Address |-> Str("0xbb"), Topics |-> <<>>, Data |-> <<>>]

Events == {TransferLog, OtherLog}

\* The events of the first MaxVaried calls vary; the later ones are transfers.
EventsAt(n) == IF n < MaxVaried THEN Events ELSE {TransferLog}

\* The values time.Now().UnixNano() takes in generateSubscriptionID.
Timestamps == 1..MaxSubs

\* fmt.Sprintf("sub_%d", timestamp)
generateSubscriptionID(timestamp) == <<"sub_", timestamp>>

SubscriptionIDs == {generateSubscriptionID(t) : t \in Timestamps}

\* The event signatures handlers are added for.
Signatures == {Str("0xddf2")}

\* CreateEventSubscription(filter) at a clock value: the ID, the pointer to
\* the caller's filter, the events queued in the new channel, whether the
\* channel is closed, and the Active flag.
CreateEventSubscription(filter, timestamp) ==
    [ID |-> generateSubscriptionID(timestamp), Filter |-> filter, Channel |-> <<>>,
     Closed |-> FALSE, Active |-> TRUE]

\* NewEventMonitor()
NoSubscriptions == [id \in {} |-> 0]

NoHandlers == [sig \in {} |-> 0]

NoCall == [op |-> "", event |-> OtherLog, delivered |-> {}, dropped |-> {}, launched |-> 0]

\* No thread has started a call.
NoThreads ==
    [pe |-> [pc |-> "idle", event |-> OtherLog, todo |-> {}, sub |-> 0, calls |-> 0],
     lc |-> [pc |-> "idle", op |-> "", sub |-> 0, id |-> <<>>]]

\* f.AddAddress(address): a valid address is appended in lower case, any
\* other is ignored.
AddAddress(f, address) ==
    IF ValidateAddress(address)
    THEN [f EXCEPT !.Address = Append(@, ToLower(address))]
    ELSE f

\* f.AddIndexedParameter(index, value): the option lists are extended with
\* empty ones up to index, counted from 0, and value is appended there.
AddIndexedParameter(f, index, value) ==
    LET n == IF Len(f.Topics) > index THEN Len(f.Topics) ELSE index + 1
        topics == [i \in 1..n |-> IF i <= Len(f.Topics) THEN f.Topics[i] ELSE <<>>]
    IN  [f EXCEPT !.Topics = [topics EXCEPT ![index + 1] = Append(@, value)]]

\* f.AddTopic(topic): topic is appended to the options of position 0.
AddTopic(f, topic) ==
    LET topics == IF Len(f.Topics) = 0 THEN << <<>> >> ELSE f.Topics
    IN  [f EXCEPT !.Topics = [topics EXCEPT ![1] = Append(@, topic)]]

\* The filter after a builder call.
ApplyFilterCall(f, call) ==
    IF call[1] = "AddAddress" THEN AddAddress(f, call[2])
    ELSE IF call[1] = "AddTopic" THEN AddTopic(f, call[2])
    ELSE AddIndexedParameter(f, call[2], call[3])

\* NewEventFilter() followed by the builder calls from call i on.
RECURSIVE BuildFilter(_, _, _)
BuildFilter(f, calls, i) ==
    IF i > Len(calls) THEN f ELSE BuildFilter(ApplyFilterCall(f, calls[i]), calls, i + 1)

\* The builder calls on a filter.
FilterCalls ==
    { <<"AddAddress", AddrA>>, <<"AddAddress", AddrB>>, <<"AddAddress", Str("0x01")>>,
      <<"AddTopic", Str("0xDDF2")>>,
      <<"AddIndexedParameter", 1, Str("0xaa01")>>,
      <<"AddIndexedParameter", 2, Str("0xBB02")>> }

\* The builder calls on the filters the subscriptions hold.
MonitorFilterCalls ==
    { <<"AddAddress", AddrA>>, <<"AddAddress", AddrB>>, <<"AddTopic", Str("0xDDF2")>> }

FilterCallSeqs == UNION {[1..n -> FilterCalls] : n \in 0..MaxFilterCalls}

\* The events matched against the filters.
MatchEvents ==
    { [Address |-> a, Topics |-> t, Data |-> <<>>] :
        a \in {ToLower(AddrA), AddrUpper, AddrB, <<>>},
        t \in { <<>>, <<Str("0xddf2")>>, <<Str("0xddF2"), Str("0xAA01")>>,
                <<Str("0xffff"), Str("0xaa01"), Str("0xbb02")>>,
                <<Str("0xddf2"), Str("0xaa01"), Str("0xbb03")>> } }

NoMatch == [calls |-> <<>>, filter |-> EmptyFilter, event |-> OtherLog, r |-> FALSE]

\* eventMatchesFilter comparing the strings as they are written.
eventMatchesFilterCaseSensitive(event, filter) ==
    /\ Len(filter.Address) > 0
         => \E i \in 1..Len(filter.Address) : filter.Address[i] = event.Address
    /\ \A i \in 1..Len(filter.Topics) :
          /\ i <= Len(event.Topics)
          /\ Len(filter.Topics[i]) > 0
               => \E j \in 1..Len(filter.Topics[i]) : filter.Topics[i][j] = event.Topics[i]

eventMatchesFilter(event, filter) ==
    /\ Len(filter.Address) > 0
         => \E i \in 1..Len(filter.Address) :
               ToLower(filter.Address[i]) = ToLower(event.Address)
    /\ \A i \in 1..Len(filter.Topics) :
          /\ i <= Len(event.Topics)
          /\ Len(filter.Topics[i]) > 0
               => \E j \in 1..Len(filter.Topics[i]) :
                     ToLower(filter.Topics[i][j]) = ToLower(event.Topics[i])

\* The subscriptions ProcessEvent sends the event to: those of the map that
\* are active and whose filter, as it is now, the event matches.
Matching(event) ==
    {subscriptions[id] : id \in
        {i \in DOMAIN subscriptions :
            /\ subs[subscriptions[i]].Active
            /\ eventMatchesFilter(event, filters[subs[subscriptions[i]].Filter])}}

\* A send that makes room by discarding the oldest queued event.
trySendDropOldest(sub, event) ==
    IF Len(sub.Channel) < ChanCap
    THEN [sub EXCEPT !.Channel = Append(sub.Channel, event)]
    ELSE [sub EXCEPT !.Channel = Append(Tail(sub.Channel), event)]

\* select { case sub.Channel <- event: default: } on an open channel: the
\* event is queued when the channel has room and nothing happens otherwise.
trySend(sub, event) ==
    IF Len(sub.Channel) < ChanCap
    THEN [sub EXCEPT !.Channel = Append(sub.Channel, event)]
    ELSE sub

\* The subscriptions after the event was sent to those of the set ptrs.
sendTo(ptrs, event) ==
    [s \in DOMAIN subs |-> IF s \in ptrs THEN trySend(subs[s], event) ELSE subs[s]]

\* The goroutines ProcessEvent starts: one for each handler of the event's
\* first topic.
handlersOf(hs, event) ==
    IF Len(event.Topics) > 0 /\ event.Topics[1] \in DOMAIN hs THEN hs[event.Topics[1]] ELSE 0

(***************************************************************************)
(* The callers of the codec                                                *)
(***************************************************************************)

Init ==
    /\ params = <<>>
    /\ values = <<>>
    /\ funcName = ""
    /\ enc = NoResult
    /\ loc = NoLocals
    /\ decData = <<>>
    /\ dec = NoResults
    /\ val = NoVal
    /\ back = NoDecoded
    /\ va = NoValidation
    /\ tok = NoToken
    /\ pc = "build"
    /\ filters = <<>>
    /\ subs = <<>>
    /\ subscriptions = NoSubscriptions
    /\ handlers = NoHandlers
    /\ processed = 0
    /\ callCount = 0
    /\ last = NoCall
    /\ mon = "none"
    /\ threads = NoThreads
    /\ fm = NoMatch
    /\ units = NoUnits
    /\ fee = NoFee

\* The caller adds a parameter and its value.
AddParam(t, v) ==
    /\ pc = "build"
    /\ Len(params) < MaxParams
    /\ Len(values) = Len(params)
    /\ params' = Append(params, ABIParam("p", t))
    /\ values' = Append(values, v)
    /\ UNCHANGED <<funcName, enc, loc, decData, dec, val, back, va, tok, pc, monitorVars, threads, callVars>>

\* The caller leaves a value out.
DropValue ==
    /\ pc = "build"
    /\ values # <<>>
    /\ Len(values) <= Len(params)
    /\ values' = SubSeq(values, 1, Len(values) - 1)
    /\ UNCHANGED <<params, funcName, enc, loc, decData, dec, val, back, va, tok, pc, monitorVars, threads, callVars>>

\* The caller passes a value too many.
ExtraValue(v) ==
    /\ pc = "build"
    /\ Len(values) >= Len(params)
    /\ Len(values) <= MaxParams
    /\ values' = Append(values, v)
    /\ UNCHANGED <<params, funcName, enc, loc, decData, dec, val, back, va, tok, pc, monitorVars, threads, callVars>>

CallEncodeFunctionCall(name) ==
    /\ pc = "build"
    /\ funcName' = name
    /\ loc' = encodeLocals(params, values)
    /\ enc' = encodeCallReturn(name, params, encodeReturn(loc'))
    /\ pc' = "encoded"
    /\ UNCHANGED <<params, values, decData, dec, val, back, va, tok, monitorVars, threads, callVars>>

\* DecodeFunctionResult on the argument bytes of the call just encoded.
CallDecodeArguments ==
    /\ pc = "encoded"
    /\ enc.st = "ok"
    /\ decData' = SubSeq(enc.bytes, 5, Len(enc.bytes))
    /\ dec' = DecodeFunctionResult(TypesOf(params), decData')
    /\ pc' = "decoded"
    /\ UNCHANGED <<params, values, funcName, enc, loc, val, back, va, tok, monitorVars, threads, callVars>>

\* DecodeFunctionResult on a buffer, with a list of expected types.
CallDecodeFunctionResult ==
    /\ pc = "build"
    /\ params = <<>>
    /\ values = <<>>
    /\ \E abiTypes \in TypeLists, d \in DataSet :
          /\ params' = [i \in 1..Len(abiTypes) |-> ABIParam("p", abiTypes[i])]
          /\ decData' = d
          /\ dec' = DecodeFunctionResult(abiTypes, d)
    /\ pc' = "rawdecoded"
    /\ UNCHANGED <<values, funcName, enc, loc, val, back, va, tok, monitorVars, threads, callVars>>

CallEncodeValue ==
    /\ pc = "build"
    /\ params = <<>>
    /\ values = <<>>
    /\ \E t \in ValueTypes, v \in ValueInputs :
          val' = [type |-> t, value |-> v, r |-> encodeValue(t, v)]
    /\ pc' = "value"
    /\ UNCHANGED <<params, values, funcName, enc, loc, decData, dec, back, va, tok, monitorVars, threads, callVars>>

\* decodeValue on the bytes encodeValue returned, read as the same type.
CallDecodeValue ==
    /\ pc = "value"
    /\ val.r.st = "ok"
    /\ back' = decodeValue(val.type, val.r.bytes, 0)
    /\ pc' = "valueback"
    /\ UNCHANGED <<params, values, funcName, enc, loc, decData, dec, val, va, tok, monitorVars, threads, callVars>>

CallValidateAddress ==
    /\ pc = "build"
    /\ params = <<>>
    /\ values = <<>>
    /\ \E address \in AddressInputs :
          va' = [address |-> address, ok |-> ValidateAddress(address)]
    /\ pc' = "validated"
    /\ UNCHANGED <<params, values, funcName, enc, loc, decData, dec, val, back, tok, monitorVars, threads, callVars>>

\* The caller calls a token helper.
CallTokenHelper ==
    /\ pc = "build"
    /\ params = <<>>
    /\ values = <<>>
    /\ \E call \in TokenCalls :
          tok' = [helper |-> call[1], args |-> call[2], r |-> CallHelper(call[1], call[2])]
    /\ pc' = "token"
    /\ UNCHANGED <<params, values, funcName, enc, loc, decData, dec, val, back, va, monitorVars, threads, callVars>>

\* The caller builds a filter and asks whether an event matches it.
CallEventMatchesFilter ==
    /\ pc = "build"
    /\ params = <<>>
    /\ values = <<>>
    /\ \E calls \in FilterCallSeqs, event \in MatchEvents :
          LET filter == BuildFilter(EmptyFilter, calls, 1)
          IN  fm' = [calls |-> calls, filter |-> filter, event |-> event,
                     r |-> eventMatchesFilter(event, filter)]
    /\ pc' = "matched"
    /\ UNCHANGED <<params, values, funcName, enc, loc, decData, dec, val, back, va, tok,
                   units, fee, monitorVars, threads>>

\* The caller formats an amount and parses the text it got.
CallFormatUnits ==
    /\ pc = "build"
    /\ params = <<>>
    /\ values = <<>>
    /\ \E amount \in Amounts, decimals \in Decimals :
          LET text == FormatUnits(amount, decimals)
          IN  units' = [amount |-> amount, decimals |-> decimals, text |-> text,
                        parsed |-> ParseUnits(text, decimals)]
    /\ pc' = "units"
    /\ UNCHANGED <<params, values, funcName, enc, loc, decData, dec, val, back, va, tok,
                   fm, fee, monitorVars, threads>>

\* The caller asks a transaction for its fee.
CallCalculateFee ==
    /\ pc = "build"
    /\ params = <<>>
    /\ values = <<>>
    /\ \E tx \in Transactions : fee' = [tx |-> tx, r |-> CalculateFee(tx)]
    /\ pc' = "fee"
    /\ UNCHANGED <<params, values, funcName, enc, loc, decData, dec, val, back, va, tok,
                   fm, units, monitorVars, threads>>

\* The caller is done with the outcome and starts over.
Reset ==
    /\ pc # "build"
    /\ params' = <<>>
    /\ values' = <<>>
    /\ funcName' = ""
    /\ enc' = NoResult
    /\ loc' = NoLocals
    /\ decData' = <<>>
    /\ dec' = NoResults
    /\ val' = NoVal
    /\ back' = NoDecoded
    /\ va' = NoValidation
    /\ tok' = NoToken
    /\ pc' = "build"
    /\ fm' = NoMatch
    /\ units' = NoUnits
    /\ fee' = NoFee
    /\ UNCHANGED <<monitorVars, threads>>

Next ==
    \/ \E pair \in CallPairs : AddParam(pair[1], pair[2])
    \/ DropValue
    \/ \E v \in ExtraValues : ExtraValue(v)
    \/ \E name \in FuncNames : CallEncodeFunctionCall(name)
    \/ CallDecodeArguments
    \/ CallDecodeFunctionResult
    \/ CallEncodeValue
    \/ CallDecodeValue
    \/ CallValidateAddress
    \/ CallTokenHelper
    \/ CallEventMatchesFilter
    \/ CallFormatUnits
    \/ CallCalculateFee
    \/ Reset

Spec == Init /\ [][Next]_vars

(***************************************************************************)
(* The callers of the event monitor. One thread makes the calls on the     *)
(* filters, the subscriptions and the monitor, one after another and in    *)
(* any order; events are processed and consumers receive in between.       *)
(***************************************************************************)

\* The range of a running ProcessEvent after a write of id to the map: a
\* key the map did not hold may or may not be produced.
todoAfterWrite(id, seen) ==
    IF threads.pe.pc \in {"loop", "send"} /\ id \notin DOMAIN subscriptions /\ seen
    THEN [threads EXCEPT !.pe.todo = @ \cup {id}]
    ELSE threads

\* f := NewEventFilter()
CallNewEventFilter ==
    /\ mon # "panic"
    /\ threads.lc.pc = "idle"
    /\ Len(filters) < MaxFilters
    /\ filters' = Append(filters, EmptyFilter)
    /\ UNCHANGED <<subs, subscriptions, handlers, processed, callCount, last, mon,
                   codecVars, threads>>

\* f.AddAddress(..), f.AddTopic(..) or f.AddIndexedParameter(..) on a filter
\* the caller holds, whether a subscription points to it or not.
CallFilterBuilder(f, call) ==
    /\ mon # "panic"
    /\ threads.lc.pc = "idle"
    /\ f \in DOMAIN filters
    /\ filters' = [filters EXCEPT ![f] = ApplyFilterCall(@, call)]
    /\ callCount' = callCount + 1
    /\ UNCHANGED <<subs, subscriptions, handlers, processed, last, mon,
                   codecVars, threads>>

\* CreateEventSubscription(filter) called directly: a subscription that is
\* in no monitor.
CallCreateEventSubscription(filter, timestamp) ==
    /\ mon # "panic"
    /\ threads.lc.pc = "idle"
    /\ Len(subs) < MaxSubs
    /\ filter \in DOMAIN filters
    /\ subs' = Append(subs, CreateEventSubscription(filter, timestamp))
    /\ callCount' = callCount + 1
    /\ UNCHANGED <<filters, subscriptions, handlers, processed, last, mon,
                   codecVars, threads>>

\* em.Subscribe(filter): a new subscription that points to the caller's
\* filter is stored under the ID made from the clock; a subscription already
\* stored under that ID leaves the map and stays with its holder.
Subscribe(filter, timestamp) ==
    /\ mon # "panic"
    /\ threads.lc.pc = "idle"
    /\ Len(subs) < MaxSubs
    /\ filter \in DOMAIN filters
    /\ LET id == generateSubscriptionID(timestamp)
       IN  /\ subs' = Append(subs, CreateEventSubscription(filter, timestamp))
           /\ subscriptions' = [i \in DOMAIN subscriptions \cup {id} |->
                                   IF i = id THEN Len(subs) + 1 ELSE subscriptions[i]]
           /\ \E seen \in BOOLEAN : threads' = todoAfterWrite(id, seen)
    /\ callCount' = callCount + 1
    /\ mon' = "ok"
    /\ UNCHANGED <<filters, handlers, processed, last, codecVars>>

\* sub.Stop() on a subscription the caller holds: Active is cleared and the
\* channel is closed; closing a closed channel panics.
Stop(sub) ==
    /\ mon # "panic"
    /\ sub \in DOMAIN subs
    /\ subs' = [subs EXCEPT ![sub].Active = FALSE, ![sub].Closed = TRUE]
    /\ callCount' = callCount + 1
    /\ last' = IF subs[sub].Closed THEN [NoCall EXCEPT !.op = "Stop"] ELSE last
    /\ mon' = IF subs[sub].Closed THEN "panic" ELSE "ok"
    /\ UNCHANGED <<filters, subscriptions, handlers, processed, codecVars, threads>>

\* em.Unsubscribe(subscriptionID): a stored subscription is stopped and
\* deleted from the map; the delete is not reached when Stop panics.
Unsubscribe(id) ==
    /\ mon # "panic"
    /\ IF id \in DOMAIN subscriptions
       THEN LET sub == subscriptions[id]
            IN  IF subs[sub].Closed
                THEN /\ subs' = [subs EXCEPT ![sub].Active = FALSE]
                     /\ subscriptions' = subscriptions
                     /\ last' = [NoCall EXCEPT !.op = "Unsubscribe"]
                     /\ mon' = "panic"
                ELSE /\ subs' = [subs EXCEPT ![sub].Active = FALSE, ![sub].Closed = TRUE]
                     /\ subscriptions' =
                           [i \in DOMAIN subscriptions \ {id} |-> subscriptions[i]]
                     /\ last' = last
                     /\ mon' = "ok"
       ELSE /\ UNCHANGED <<subs, subscriptions, last>>
            /\ mon' = "ok"
    /\ callCount' = callCount + 1
    /\ UNCHANGED <<filters, handlers, processed, codecVars, threads>>

\* em.AddEventHandler(eventSignature, handler)
AddEventHandler(sig) ==
    /\ mon # "panic"
    /\ threads.lc.pc = "idle"
    /\ (sig \in DOMAIN handlers => handlers[sig] < MaxHandlers)
    /\ handlers' = [s \in DOMAIN handlers \cup {sig} |->
                       IF s # sig THEN handlers[s]
                       ELSE IF sig \in DOMAIN handlers THEN handlers[sig] + 1 ELSE 1]
    /\ callCount' = callCount + 1
    /\ mon' = "ok"
    /\ UNCHANGED <<filters, subs, subscriptions, processed, last, codecVars, threads>>

\* em.ProcessEvent(event): the event is sent, without waiting, to every
\* active subscription of the map whose filter it matches, and a goroutine is
\* started for each handler of its first topic. A send on a closed channel
\* panics: the subscriptions visited before it (the map is visited in any
\* order) have the event, and no goroutine is started.
ProcessEvent ==
    /\ mon # "panic"
    /\ \E event \in EventsAt(processed) :
          LET ptrs == Matching(event)
              closed == {s \in ptrs : subs[s].Closed}
              full == {s \in ptrs : Len(subs[s].Channel) >= ChanCap}
          IN  IF closed = {}
              THEN /\ subs' = sendTo(ptrs, event)
                   /\ last' = [op |-> "ProcessEvent", event |-> event,
                               delivered |-> ptrs \ full, dropped |-> full,
                               launched |-> handlersOf(handlers, event)]
                   /\ mon' = "ok"
              ELSE \E visited \in SUBSET (ptrs \ closed) :
                   /\ subs' = sendTo(visited, event)
                   /\ last' = [op |-> "ProcessEvent", event |-> event,
                               delivered |-> visited \ full, dropped |-> visited \cap full,
                               launched |-> 0]
                   /\ mon' = "panic"
    /\ processed' = IF processed < MaxCounted THEN processed + 1 ELSE processed
    /\ UNCHANGED <<filters, subscriptions, handlers, callCount, codecVars, threads>>

\* <-sub.GetEvents(): a consumer that holds the subscription takes the first
\* queued event, whether the subscription is stored, stopped or neither.
Receive(sub) ==
    /\ mon # "panic"
    /\ sub \in DOMAIN subs
    /\ subs[sub].Channel # <<>>
    /\ subs' = [subs EXCEPT ![sub].Channel = Tail(@)]
    /\ callCount' = callCount + 1
    /\ UNCHANGED <<filters, subscriptions, handlers, processed, last, mon, codecVars, threads>>

\* The places of the filters and of the subscriptions.
FilterPtrs == 1..MaxFilters

SubPtrs == 1..MaxSubs

\* Up to MaxCalls calls around any number of events: the channels fill up.
NextEvents ==
    \/ CallNewEventFilter
    \/ callCount < MaxCalls /\ \E f \in FilterPtrs, call \in MonitorFilterCalls :
          CallFilterBuilder(f, call)
    \/ callCount < MaxCalls /\ \E f \in FilterPtrs, timestamp \in Timestamps :
          CallCreateEventSubscription(f, timestamp)
    \/ callCount < MaxCalls /\ \E f \in FilterPtrs, timestamp \in Timestamps :
          Subscribe(f, timestamp)
    \/ callCount < MaxCalls /\ \E sub \in SubPtrs : Stop(sub)
    \/ callCount < MaxCalls /\ \E id \in SubscriptionIDs : Unsubscribe(id)
    \/ callCount < MaxCalls /\ \E sig \in Signatures : AddEventHandler(sig)
    \/ callCount < MaxCalls /\ \E sub \in SubPtrs : Receive(sub)
    \/ ProcessEvent

SpecEvents == Init /\ [][NextEvents]_vars

\* Up to MaxLifecycleCalls calls around up to MaxCounted events.
NextLifecycle ==
    \/ CallNewEventFilter
    \/ callCount < MaxLifecycleCalls /\ \E f \in FilterPtrs, call \in MonitorFilterCalls :
          CallFilterBuilder(f, call)
    \/ callCount < MaxLifecycleCalls /\ \E f \in FilterPtrs, timestamp \in Timestamps :
          CallCreateEventSubscription(f, timestamp)
    \/ callCount < MaxLifecycleCalls /\ \E f \in FilterPtrs, timestamp \in Timestamps :
          Subscribe(f, timestamp)
    \/ callCount < MaxLifecycleCalls /\ \E sub \in SubPtrs : Stop(sub)
    \/ callCount < MaxLifecycleCalls /\ \E id \in SubscriptionIDs : Unsubscribe(id)
    \/ callCount < MaxLifecycleCalls /\ \E sig \in Signatures : AddEventHandler(sig)
    \/ callCount < MaxLifecycleCalls /\ \E sub \in SubPtrs : Receive(sub)
    \/ processed < MaxCounted /\ ProcessEvent

SpecLifecycle == Init /\ [][NextLifecycle]_vars

(***************************************************************************)
(* Two threads on the event monitor: one runs ProcessEvent, the other the  *)
(* calls on the filters, the subscriptions and the monitor, with Stop and  *)
(* Unsubscribe a step per statement. Nothing in the code orders the steps  *)
(* of one thread with those of the other.                                  *)
(***************************************************************************)

\* The range of ProcessEvent is running.
InRange == threads.pe.pc \in {"loop", "send"}

\* em.ProcessEvent(event) begins its range over em.subscriptions.
ProcessEventRange ==
    /\ mon # "panic"
    /\ threads.pe.pc = "idle"
    /\ \E event \in EventsAt(processed) :
          threads' = [threads EXCEPT !.pe = [pc |-> "loop", event |-> event,
                                             todo |-> DOMAIN subscriptions, sub |-> 0,
                                             calls |-> threads.pe.calls + 1]]
    /\ processed' = IF processed < MaxCounted THEN processed + 1 ELSE processed
    /\ UNCHANGED <<filters, subs, subscriptions, handlers, callCount, last, mon,
                   codecVars>>

\* The range reaches an entry, in any order, and evaluates
\* sub.Active && em.eventMatchesFilter(event, sub.Filter).
ProcessEventCheck ==
    /\ mon # "panic"
    /\ threads.pe.pc = "loop"
    /\ \E id \in threads.pe.todo :
          LET sub == subscriptions[id]
          IN  threads' =
                 IF /\ subs[sub].Active
                    /\ eventMatchesFilter(threads.pe.event, filters[subs[sub].Filter])
                 THEN [threads EXCEPT !.pe.pc = "send", !.pe.sub = sub,
                                      !.pe.todo = threads.pe.todo \ {id}]
                 ELSE [threads EXCEPT !.pe.todo = threads.pe.todo \ {id}]
    /\ UNCHANGED <<monitorVars, codecVars>>

\* select { case sub.Channel <- event: default: }: the send panics on a
\* closed channel.
ProcessEventSend ==
    /\ mon # "panic"
    /\ threads.pe.pc = "send"
    /\ IF subs[threads.pe.sub].Closed
       THEN /\ threads' = [threads EXCEPT !.pe.pc = "panic"]
            /\ mon' = "panic"
            /\ last' = [NoCall EXCEPT !.op = "ProcessEvent", !.event = threads.pe.event]
            /\ UNCHANGED subs
       ELSE /\ threads' = [threads EXCEPT !.pe.pc = "loop"]
            /\ subs' = [subs EXCEPT ![threads.pe.sub] = trySend(@, threads.pe.event)]
            /\ UNCHANGED <<mon, last>>
    /\ UNCHANGED <<filters, subscriptions, handlers, processed, callCount, codecVars>>

\* The range is over: the handlers are started and ProcessEvent returns.
ProcessEventReturn ==
    /\ mon # "panic"
    /\ threads.pe.pc = "loop"
    /\ threads.pe.todo = {}
    /\ threads' = [threads EXCEPT !.pe.pc = "idle"]
    /\ last' = [NoCall EXCEPT !.op = "ProcessEvent", !.event = threads.pe.event,
                              !.launched = handlersOf(handlers, threads.pe.event)]
    /\ mon' = "ok"
    /\ UNCHANGED <<filters, subs, subscriptions, handlers, processed, callCount,
                   codecVars>>

\* sub.Active = false, the first statement of sub.Stop() on a subscription
\* the caller holds.
StopWrite(sub) ==
    /\ mon # "panic"
    /\ threads.lc.pc = "idle"
    /\ sub \in DOMAIN subs
    /\ subs' = [subs EXCEPT ![sub].Active = FALSE]
    /\ threads' = [threads EXCEPT !.lc = [pc |-> "close", op |-> "Stop", sub |-> sub,
                                          id |-> <<>>]]
    /\ callCount' = callCount + 1
    /\ UNCHANGED <<filters, subscriptions, handlers, processed, last, mon,
                   codecVars>>

\* em.Unsubscribe(subscriptionID) up to the first statement of the Stop it
\* calls for a stored ID; it returns at once for any other ID.
UnsubscribeWrite(id) ==
    /\ mon # "panic"
    /\ threads.lc.pc = "idle"
    /\ IF id \in DOMAIN subscriptions
       THEN /\ subs' = [subs EXCEPT ![subscriptions[id]].Active = FALSE]
            /\ threads' = [threads EXCEPT !.lc = [pc |-> "close", op |-> "Unsubscribe",
                                                  sub |-> subscriptions[id], id |-> id]]
       ELSE UNCHANGED <<subs, threads>>
    /\ callCount' = callCount + 1
    /\ UNCHANGED <<filters, subscriptions, handlers, processed, last, mon,
                   codecVars>>

\* close(sub.Channel), the second statement of Stop.
StopClose ==
    /\ mon # "panic"
    /\ threads.lc.pc = "close"
    /\ IF subs[threads.lc.sub].Closed
       THEN /\ threads' = [threads EXCEPT !.lc.pc = "panic"]
            /\ mon' = "panic"
            /\ last' = [NoCall EXCEPT !.op = threads.lc.op]
            /\ UNCHANGED subs
       ELSE /\ threads' = [threads EXCEPT
                             !.lc.pc = IF threads.lc.op = "Unsubscribe" THEN "delete" ELSE "idle"]
            /\ subs' = [subs EXCEPT ![threads.lc.sub].Closed = TRUE]
            /\ UNCHANGED <<mon, last>>
    /\ UNCHANGED <<filters, subscriptions, handlers, processed, callCount, codecVars>>

\* delete(em.subscriptions, subscriptionID), the end of Unsubscribe: a
\* running range does not produce the entry any more, and a ProcessEvent that
\* holds the subscription keeps it.
UnsubscribeDelete ==
    /\ mon # "panic"
    /\ threads.lc.pc = "delete"
    /\ subscriptions' = [i \in DOMAIN subscriptions \ {threads.lc.id} |-> subscriptions[i]]
    /\ threads' = [threads EXCEPT !.lc.pc = "idle", !.pe.todo = @ \ {threads.lc.id}]
    /\ UNCHANGED <<filters, subs, handlers, processed, callCount, last, mon, codecVars>>

\* The same delete while the other thread ranges over the map: the runtime
\* may stop the program (concurrent map iteration and map write).
UnsubscribeDeleteFatal ==
    /\ mon # "panic"
    /\ threads.lc.pc = "delete"
    /\ InRange
    /\ threads' = [threads EXCEPT !.lc.pc = "panic"]
    /\ mon' = "panic"
    /\ last' = [NoCall EXCEPT !.op = "Unsubscribe"]
    /\ UNCHANGED <<filters, subs, subscriptions, handlers, processed, callCount,
                   codecVars>>

\* em.Subscribe(filter) while the other thread ranges over the map: the
\* runtime may stop the program at the write of the map.
SubscribeFatal(filter, timestamp) ==
    /\ mon # "panic"
    /\ threads.lc.pc = "idle"
    /\ Len(subs) < MaxSubs
    /\ filter \in DOMAIN filters
    /\ InRange
    /\ subs' = Append(subs, CreateEventSubscription(filter, timestamp))
    /\ threads' = [threads EXCEPT !.lc = [pc |-> "panic", op |-> "Subscribe",
                                          sub |-> Len(subs) + 1, id |-> <<>>]]
    /\ callCount' = callCount + 1
    /\ mon' = "panic"
    /\ last' = [NoCall EXCEPT !.op = "Subscribe"]
    /\ UNCHANGED <<filters, subscriptions, handlers, processed, codecVars>>

\* em.AddEventHandler(eventSignature, handler) while the other thread is
\* about to look its event's signature up in em.handlers: the runtime may
\* stop the program (concurrent map read and map write).
AddEventHandlerFatal(sig) ==
    /\ mon # "panic"
    /\ threads.lc.pc = "idle"
    /\ (sig \in DOMAIN handlers => handlers[sig] < MaxHandlers)
    /\ threads.pe.pc = "loop"
    /\ threads.pe.todo = {}
    /\ Len(threads.pe.event.Topics) > 0
    /\ threads' = [threads EXCEPT !.lc = [pc |-> "panic", op |-> "AddEventHandler",
                                          sub |-> 0, id |-> <<>>]]
    /\ callCount' = callCount + 1
    /\ mon' = "panic"
    /\ last' = [NoCall EXCEPT !.op = "AddEventHandler"]
    /\ UNCHANGED <<filters, subs, subscriptions, handlers, processed, codecVars>>

NextRace ==
    \/ CallNewEventFilter
    \/ callCount < MaxRaceCalls /\ \E f \in FilterPtrs, call \in MonitorFilterCalls :
          CallFilterBuilder(f, call)
    \/ callCount < MaxRaceCalls /\ \E f \in FilterPtrs, timestamp \in Timestamps :
          CallCreateEventSubscription(f, timestamp)
    \/ callCount < MaxRaceCalls /\ \E f \in FilterPtrs, timestamp \in Timestamps :
          Subscribe(f, timestamp)
    \/ callCount < MaxRaceCalls /\ \E f \in FilterPtrs, timestamp \in Timestamps :
          SubscribeFatal(f, timestamp)
    \/ callCount < MaxRaceCalls /\ \E sub \in SubPtrs : StopWrite(sub)
    \/ callCount < MaxRaceCalls /\ \E id \in SubscriptionIDs : UnsubscribeWrite(id)
    \/ callCount < MaxRaceCalls /\ \E sig \in Signatures : AddEventHandler(sig)
    \/ callCount < MaxRaceCalls /\ \E sig \in Signatures : AddEventHandlerFatal(sig)
    \/ callCount < MaxRaceCalls /\ \E sub \in SubPtrs : Receive(sub)
    \/ threads.pe.calls < MaxRaceEvents /\ ProcessEventRange
    \/ ProcessEventCheck
    \/ ProcessEventSend
    \/ ProcessEventReturn
    \/ StopClose
    \/ UnsubscribeDelete
    \/ UnsubscribeDeleteFatal

SpecRace == Init /\ [][NextRace]_vars

(***************************************************************************)
(* The vocabulary of the properties                                        *)
(***************************************************************************)

\* uint8 .. uint256 and int8 .. int256, the widths a multiple of 8.
UintTypes == {"uint" \o ToString(8 * k) : k \in 1..32}

IntTypes == {"int" \o ToString(8 * k) : k \in 1..32}

\* The types both the encoder and the decoder are specified for.
RoundTripTypes == {"address", "bool", "string"} \cup UintTypes

\* The types the value encoder is specified for: the elementary ones, and
\* T[] over them.
ElementaryTypes == {"address", "bool", "string", "bytes"} \cup UintTypes \cup IntTypes

RECURSIVE ListedType(_)
ListedType(t) ==
    \/ t \in ElementaryTypes
    \/ HasSuffix(t, "[]") /\ ListedType(TrimSuffix(t, "[]"))

\* The dynamic types of the specification: string, bytes and arrays.
SpecDynamic(t) == t \in {"string", "bytes"} \/ HasSuffix(t, "[]")

\* The value of a word that holds a small number, -1 for any other word.
WordVal(w) ==
    IF SubSeq(w, 1, 29) = Zeros(29) THEN 65536 * w[30] + 256 * w[31] + w[32] ELSE -1

\* Word i of a buffer.
WordAt(b, i) == SubSeq(b, 32 * (i - 1) + 1, 32 * i)

\* The 20 bytes of an address string.
AddressBytes(a) == HexDecodeString(SubSeq(a, 3, Len(a)))

\* A decoded value equals the original: an address as its 20 bytes, any
\* other value as it is.
SameValue(t, original, got) ==
    IF t = "address"
    THEN /\ KindOf(got) = "string"
         /\ ValidateAddress(ValOf(got))
         /\ AddressBytes(ValOf(got)) = AddressBytes(ValOf(original))
    ELSE got = original

\* The integer a value holds is negative.
NegativeInteger(v) ==
    \/ KindOf(v) = "*big.Int" /\ ValOf(v).neg
    \/ KindOf(v) \in {"int", "int64"} /\ ValOf(v) < 0
    \/ KindOf(v) = "string" /\ SetStringOk(ValOf(v)) /\ SetString(ValOf(v)).neg

\* The magnitude of the integer a value holds does not fit in 256 bits.
OutOfRangeInteger(v) ==
    \/ KindOf(v) = "*big.Int" /\ Len(ValOf(v).abs) > 32
    \/ KindOf(v) = "string" /\ SetStringOk(ValOf(v)) /\ Len(SetString(ValOf(v)).abs) > 32

\* An EncodeFunctionCall has returned its bytes.
Encoded == pc \in {"encoded", "decoded"} /\ enc.st = "ok"

\* Decoding a string at head word 1 of data would read outside data: the head
\* word, the length word at the offset it holds, or the content after it.
TruncatedString(data) ==
    \/ Len(data) < 32
    \/ LET o == WordVal(WordAt(data, 1))
       IN  \/ o = -1
           \/ o + 32 > Len(data)
           \/ LET l == WordVal(SubSeq(data, o + 1, o + 32))
              IN  l = -1 \/ o + 32 + l > Len(data)

\* The Go types that are the variant of a listed ABI type: a string for an
\* address or a string, an integer for uintN and intN, a bool for bool, a
\* byte slice for bytes, a slice for T[].
VariantKinds(t) ==
    IF HasSuffix(t, "[]") THEN {"[]interface{}", "[]string"}
    ELSE IF t \in {"address", "string"} THEN {"string"}
    ELSE IF t \in UintTypes \cup IntTypes THEN {"*big.Int", "int", "int64", "uint64"}
    ELSE IF t = "bool" THEN {"bool"}
    ELSE {"[]byte"}

\* The bytes of the hexadecimal digits, in both cases.
HexDigitBytes == (48..57) \cup (65..70) \cup (97..102)

\* s is "0x" followed by 40 hexadecimal characters: a 20-byte address.
IsAddressText(s) ==
    /\ Len(s) = 42
    /\ s[1] = 48
    /\ s[2] = 120
    /\ \A i \in 3..42 : s[i] \in HexDigitBytes

(***************************************************************************)
(* Properties                                                              *)
(***************************************************************************)

\* C1 as stated: for every parameter list over {address, uintN, bool,
\* string}, the empty list included, decoding the argument bytes of the
\* encoded call succeeds and returns the original values in order.
C1_RoundTripAnyLength ==
    (pc = "decoded" /\ \A i \in 1..Len(params) : params[i].Type \in RoundTripTypes)
        => /\ dec.st = "ok"
           /\ Len(dec.results) = Len(values)
           /\ \A i \in 1..Len(values) :
                 SameValue(params[i].Type, values[i], dec.results[i])

\* C1 amended: for every non-empty parameter list over {address, uintN,
\* bool, string}, decoding the argument bytes of the encoded call succeeds
\* and returns values equal to the originals, in the same order.
C1_RoundTrip ==
    (/\ pc = "decoded"
     /\ params # <<>>
     /\ \A i \in 1..Len(params) : params[i].Type \in RoundTripTypes)
        => /\ dec.st = "ok"
           /\ Len(dec.results) = Len(values)
           /\ \A i \in 1..Len(values) :
                 SameValue(params[i].Type, values[i], dec.results[i])

C1_Witness ==
    /\ pc = "decoded"
    /\ TypesOf(params) = <<"string", "address", "string">>
    /\ values = <<StringValue(Long33), StringValue(AddrMixed), StringValue(<<>>)>>
    /\ dec.st = "ok"
    /\ dec.results[1] = StringValue(Long33)

\* C2: EncodeFunctionCall("transfer", [address, uint256], [address 1,
\* 1000000]) is the selector a9059cbb, the address word and the amount word.
C2_TransferFixture ==
    (/\ pc = "encoded"
     /\ funcName = "transfer"
     /\ TypesOf(params) = <<"address", "uint256">>
     /\ values = <<StringValue(Addr1), BigValue(NewInt(1000000))>>)
        => enc = Ok(HexDecodeString(Str(ERC20_TRANSFER_SELECTOR))
                    \o Zeros(31) \o <<1>>
                    \o Zeros(29) \o <<15, 66, 64>>)

\* C3: after every successful encodeParameters the head, the bytes before
\* the first dynamic payload, is 32 * len(params) bytes long, and the bytes
\* returned are the selector, the head and the dynamic payloads.
C3_HeadSize ==
    Encoded
        => /\ Len(loc.encoded) = 32 * Len(params)
           /\ enc.bytes = SubSeq(enc.bytes, 1, 4) \o loc.encoded \o loc.dynamicData

C3_Witness ==
    /\ Encoded
    /\ TypesOf(params) = <<"uint256[]", "bool", "bytes">>
    /\ Len(loc.encoded) = 96
    /\ loc.dynamicData # <<>>

\* C4: in every successful encoding the offsets written in the head for the
\* dynamic parameters are at least 32 * len(params) and strictly increasing
\* in parameter order.
C4_OffsetsIncrease ==
    Encoded
        => LET args == SubSeq(enc.bytes, 5, Len(enc.bytes))
               dyn == {i \in 1..Len(params) : SpecDynamic(params[i].Type)}
           IN  /\ \A i \in dyn : WordVal(WordAt(args, i)) >= 32 * Len(params)
               /\ \A i, j \in dyn :
                     i < j => WordVal(WordAt(args, i)) < WordVal(WordAt(args, j))

C4_Witness ==
    /\ Encoded
    /\ TypesOf(params) = <<"string", "bytes", "address[]">>
    /\ values[1] = StringValue(Long33)
    /\ WordVal(WordAt(SubSeq(enc.bytes, 5, Len(enc.bytes)), 3)) > 96

\* C5: whenever len(params) # len(values), EncodeFunctionCall returns the
\* arity error and no bytes, and no parameter has been encoded.
C5_ArityMismatch ==
    (pc = "encoded" /\ Len(params) # Len(values))
        => /\ enc.st = "err"
           /\ enc.bytes = <<>>
           /\ enc.err = <<"failed to encode parameters", "parameter count mismatch">>
           /\ loc.encoded = <<>>
           /\ loc.dynamicData = <<>>

C5_Witness ==
    /\ pc = "encoded"
    /\ Len(params) = 2
    /\ Len(values) = 1
    /\ enc.st = "err"

\* C6: DecodeFunctionResult returns the empty-data error and no values
\* whenever data is empty, whatever the type list.
C6_EmptyData ==
    (pc \in {"decoded", "rawdecoded"} /\ decData = <<>>)
        => /\ dec.st = "err"
           /\ dec.err = <<"empty data">>
           /\ dec.results = <<>>

C6_Witness ==
    /\ pc = "rawdecoded"
    /\ decData = <<>>
    /\ TypesOf(params) = <<"uint256", "string">>
    /\ dec.st = "err"

\* C7: encodeValue for a uintN or intN type returns an error for every
\* integer whose magnitude does not fit in 256 bits.
C7_OutOfRangeIsError ==
    (/\ pc = "value"
     /\ val.type \in UintTypes \cup IntTypes
     /\ OutOfRangeInteger(val.value))
        => val.r.st = "err"

\* C8: encodeValue for a uintN type returns an error for every negative
\* integer value and emits no word for it.
C8_NegativeUnsignedIsError ==
    (/\ pc = "value"
     /\ val.type \in UintTypes
     /\ NegativeInteger(val.value))
        => val.r.st = "err" /\ val.r.bytes = <<>>

\* C9: encodeValue returns an error for every type that is not address,
\* uintN, intN, bool, string, bytes or T[] over these; no such type is
\* encoded.
C9_UnsupportedEncodeIsError ==
    (pc = "value" /\ ~ListedType(val.type))
        => val.r.st = "err" /\ val.r.bytes = <<>>

\* C10: DecodeFunctionResult returns an error and no value for every type
\* list that holds a type other than address, uintN, bool and string.
C10_UnsupportedDecodeIsError ==
    (pc = "rawdecoded" /\ \E i \in 1..Len(params) : params[i].Type \notin RoundTripTypes)
        => dec.st = "err" /\ dec.results = <<>>

\* C11: DecodeFunctionResult for a string type returns an error, and does
\* not crash, whenever reading the head word, the length word at the offset
\* or the content after it would exceed len(data).
C11_TruncatedStringIsError ==
    (/\ pc = "rawdecoded"
     /\ TypesOf(params) = <<"string">>
     /\ TruncatedString(decData))
        => dec.st = "err" /\ dec.results = <<>>

\* C12: encodeValue returns an error, and encodes nothing, whenever the
\* value's variant is not the one paired with the type (a string for uintN
\* or bool, a bool for address).
C12_VariantMismatchIsError ==
    (/\ pc = "value"
     /\ ListedType(val.type)
     /\ KindOf(val.value) \notin VariantKinds(val.type))
        => val.r.st = "err" /\ val.r.bytes = <<>>

\* C13: encodeValue(address, a) is one word, 12 zero bytes and the 20
\* address bytes, when a is "0x" and 40 hexadecimal characters, and an error
\* with no bytes for every other value: a shorter or longer address is not
\* padded or cut and accepted.
C13_AddressEncoding ==
    (pc \in {"value", "valueback"} /\ val.type = "address")
        => IF KindOf(val.value) = "string" /\ IsAddressText(ValOf(val.value))
           THEN val.r = Ok(Zeros(12) \o AddressBytes(ValOf(val.value)))
           ELSE val.r.st = "err" /\ val.r.bytes = <<>>

C13_Witness ==
    /\ pc = "value"
    /\ val.type = "address"
    /\ val.value = StringValue(AddrUpper)
    /\ val.r.st = "ok"
    /\ Len(val.r.bytes) = 32
    /\ val.r.bytes[13] = 171

\* C14 as stated: decodeAddress on the word encodeValue(address, addr)
\* returned gives back addr, in whatever case addr is written.
C14_AddressRoundTripText ==
    (pc = "valueback" /\ val.type = "address")
        => back.st = "ok" /\ back.value = val.value

\* C14 amended: decodeAddress on the word encodeValue(address, addr) returned
\* gives back addr written in lower case: the same 20 bytes as addr.
C14_AddressRoundTrip ==
    (pc = "valueback" /\ val.type = "address")
        => /\ back.st = "ok"
           /\ back.value = StringValue(ToLower(ValOf(val.value)))
           /\ AddressBytes(ValOf(back.value)) = AddressBytes(ValOf(val.value))

C14_Witness ==
    /\ pc = "valueback"
    /\ val.type = "address"
    /\ val.value = StringValue(AddrUpper)
    /\ back.st = "ok"
    /\ ValOf(back.value) = ToLower(AddrUpper)

\* C15: ValidateAddress returns true exactly for "0x" followed by 40
\* hexadecimal characters.
C15_ValidateAddress ==
    pc = "validated" => (va.ok <=> IsAddressText(va.address))

C15_Witness ==
    /\ pc = "validated"
    /\ va.address = AddrUpper
    /\ va.ok

\* C16: encodeValue(string, c) and encodeValue(bytes, c) are a word holding
\* len(c), then c, then zero bytes up to the next multiple of 32; for empty
\* c the result is one zero word and nothing after it.
C16_StringBytesEncoding ==
    (/\ pc \in {"value", "valueback"}
     /\ \/ val.type = "string" /\ KindOf(val.value) = "string"
        \/ val.type = "bytes" /\ KindOf(val.value) = "[]byte")
        => LET c == ValOf(val.value)
               b == val.r.bytes
           IN  /\ val.r.st = "ok"
               /\ Len(b) = 32 + 32 * ((Len(c) + 31) \div 32)
               /\ WordVal(WordAt(b, 1)) = Len(c)
               /\ SubSeq(b, 33, 32 + Len(c)) = c
               /\ \A i \in (33 + Len(c))..Len(b) : b[i] = 0
               /\ c = <<>> => b = Zeros(32)

C16_Witness ==
    /\ pc = "value"
    /\ val.type = "bytes"
    /\ val.value = BytesValue(Rep(7, 33))
    /\ val.r.st = "ok"
    /\ Len(val.r.bytes) = 96

\* C17: encodeValue(bool, true) is 31 zero bytes and 0x01, and
\* encodeValue(bool, false) is 32 zero bytes.
C17_BoolEncoding ==
    (/\ pc \in {"value", "valueback"}
     /\ val.type = "bool"
     /\ KindOf(val.value) = "bool")
        => val.r = Ok(IF ValOf(val.value) THEN Zeros(31) \o <<1>> ELSE Zeros(32))

C17_Witness ==
    /\ pc = "value"
    /\ val.type = "bool"
    /\ val.value = BoolValue(TRUE)
    /\ val.r.bytes = Zeros(31) \o <<1>>

\* C18: every successful EncodeFunctionCall returns 4 selector bytes and an
\* argument block whose length is a multiple of 32.
C18_Alignment ==
    Encoded => Len(enc.bytes) >= 4 /\ (Len(enc.bytes) - 4) % 32 = 0

C18_Witness ==
    /\ Encoded
    /\ TypesOf(params) = <<"bytes", "string", "address[]">>
    /\ values[2] = StringValue(Long33)
    /\ Len(enc.bytes) = 4 + 96 + 64 + 96 + 96


(***************************************************************************)
(* The token helpers and the codec                                         *)
(***************************************************************************)

\* The hard-coded selector of a helper.
HelperSelector(helper) ==
    CASE helper = "ERC20Token.EncodeTransfer" -> ERC20_TRANSFER_SELECTOR
      [] helper = "ERC20Token.EncodeTransferFrom" -> ERC20_TRANSFER_FROM_SELECTOR
      [] helper = "ERC20Token.EncodeApprove" -> ERC20_APPROVE_SELECTOR
      [] helper = "ERC20Token.EncodeBalanceOf" -> ERC20_BALANCE_OF_SELECTOR
      [] helper = "ERC20Token.EncodeAllowance" -> ERC20_ALLOWANCE_SELECTOR
      [] helper = "ERC20Token.EncodeTotalSupply" -> ERC20_TOTAL_SUPPLY_SELECTOR
      [] helper = "ERC721Token.EncodeTransferFrom" -> ERC721_TRANSFER_FROM_SELECTOR
      [] helper = "ERC721Token.EncodeSafeTransferFrom" -> ERC721_SAFE_TRANSFER_FROM_SELECTOR
      [] helper = "ERC721Token.EncodeApprove" -> ERC721_APPROVE_SELECTOR
      [] helper = "ERC721Token.EncodeSetApprovalForAll" -> ERC721_SET_APPROVAL_FOR_ALL_SELECTOR
      [] helper = "ERC721Token.EncodeOwnerOf" -> ERC721_OWNER_OF_SELECTOR
      [] helper = "ERC721Token.EncodeBalanceOf" -> ERC721_BALANCE_OF_SELECTOR
      [] helper = "ERC721Token.EncodeGetApproved" -> ERC721_GET_APPROVED_SELECTOR
      [] helper = "ERC721Token.EncodeIsApprovedForAll" -> ERC721_IS_APPROVED_FOR_ALL_SELECTOR
      [] OTHER -> ERC721_TOKEN_URI_SELECTOR

\* The ABI type of an argument of a helper: an address is given as a string,
\* an amount or a token id as a *big.Int, a flag as a bool, a payload as bytes.
ArgType(arg) ==
    CASE KindOf(arg) = "string" -> "address"
      [] KindOf(arg) = "*big.Int" -> "uint256"
      [] KindOf(arg) = "bool" -> "bool"
      [] OTHER -> "bytes"

\* An argument a helper is meant for: an address ValidateAddress accepts, an
\* amount in 0 .. 2^256-1, any flag, any payload.
ValidArg(arg) ==
    CASE KindOf(arg) = "string" -> ValidateAddress(ValOf(arg))
      [] KindOf(arg) = "*big.Int" -> ~ValOf(arg).neg /\ Len(ValOf(arg).abs) <= 32
      [] OTHER -> TRUE

\* The typed arguments of a helper call. The data payload of
\* EncodeSafeTransferFrom is an argument when it is not empty.
TypedArgs(args) ==
    IF Len(args) = 4 /\ ValOf(args[4]) = <<>> THEN SubSeq(args, 1, 3) ELSE args

\* What the codec produces for the typed arguments after the selector.
CodecCall(helper, args) ==
    LET r == encodeParameters([i \in 1..Len(args) |-> ABIParam("p", ArgType(args[i]))], args)
    IN  IF r.st = "ok" THEN Ok(selectorBytes(HelperSelector(helper)) \o r.bytes) ELSE r

\* C19: every token helper called with valid arguments returns its selector
\* followed by the argument block encodeParameters produces for the same
\* typed arguments, EncodeSafeTransferFrom with a data payload included.
C19_TokenHelpersAreCodec ==
    (pc = "token" /\ \A i \in 1..Len(tok.args) : ValidArg(tok.args[i]))
        => tok.r = CodecCall(tok.helper, TypedArgs(tok.args))

\* The same for the helpers other than EncodeSafeTransferFrom with a payload.
TokenHelpersWithoutPayloadAreCodec ==
    (/\ pc = "token"
     /\ \A i \in 1..Len(tok.args) : ValidArg(tok.args[i])
     /\ Len(TypedArgs(tok.args)) < 4)
        => tok.r = CodecCall(tok.helper, TypedArgs(tok.args))


(***************************************************************************)
(* Delivery to full channels                                               *)
(***************************************************************************)

\* No channel holds more than its capacity.
ChannelsWithinCapacity ==
    \A s \in DOMAIN subs : Len(subs[s].Channel) <= ChanCap

\* ProcessEvent can be called and returns whatever the channels hold: it
\* does not wait for room.
ProcessEventNeverBlocks == mon # "panic" => ENABLED ProcessEvent

\* The subscription is stored in the monitor.
Stored(s) == \E id \in DOMAIN subscriptions : subscriptions[id] = s

\* A ProcessEvent call returns normally, leaves the queue of every full
\* matching active subscription as it was, and appends the event to the queue
\* of every other matching active subscription of the monitor; the queues of
\* the remaining subscriptions are untouched.
ProcessEventDelivers ==
    ProcessEvent =>
        /\ mon' = "ok"
        /\ subscriptions' = subscriptions
        /\ DOMAIN subs' = DOMAIN subs
        /\ \A s \in DOMAIN subs :
              LET sub == subs[s]
              IN  subs'[s].Channel =
                     IF ~(/\ Stored(s)
                          /\ sub.Active
                          /\ eventMatchesFilter(last'.event, filters[sub.Filter]))
                     THEN sub.Channel
                     ELSE IF Len(sub.Channel) = ChanCap
                     THEN sub.Channel
                     ELSE Append(sub.Channel, last'.event)

\* C20: ProcessEvent never blocks; an event that matches an active
\* subscription whose channel holds 100 events is dropped for that
\* subscription, whose queued events stay as they are, while the other
\* matching subscriptions still get it; no channel ever holds more than 100
\* events.
C20_DropOnFull ==
    /\ [](ChannelsWithinCapacity /\ ProcessEventNeverBlocks)
    /\ [][ProcessEventDelivers]_vars

\* A call dropped the event for a full subscription and delivered it to
\* another one.
C20_Witness ==
    /\ last.op = "ProcessEvent"
    /\ mon = "ok"
    /\ \E full \in last.dropped, other \in last.delivered :
          /\ Len(subs[full].Channel) = ChanCap
          /\ subs[full].Channel[1] = OtherLog
          /\ subs[other].Channel # <<>>
          /\ subs[other].Channel[Len(subs[other].Channel)] = last.event


(***************************************************************************)
(* Offsets and payloads                                                    *)
(***************************************************************************)

\* The encoding of parameter i of the call.
PayloadOf(i) == encodeValue(params[i].Type, values[i]).bytes

\* The sum of the payload lengths of the dynamic parameters before i.
RECURSIVE PayloadsBefore(_)
PayloadsBefore(i) ==
    IF i <= 1 THEN 0
    ELSE PayloadsBefore(i - 1)
         + (IF SpecDynamic(params[i - 1].Type) THEN Len(PayloadOf(i - 1)) ELSE 0)

\* C21: in every successful encoding the head word of each dynamic parameter
\* is 32 * len(params) plus the payload lengths of the dynamic parameters
\* before it, the argument block holds the parameter's encoding from that
\* offset on, and the payloads follow one another in parameter order with
\* nothing between or after them.
C21_OffsetCorrectness ==
    Encoded
        => LET args == SubSeq(enc.bytes, 5, Len(enc.bytes))
               n == Len(params)
               off(i) == 32 * n + PayloadsBefore(i)
           IN  /\ \A i \in 1..n :
                     SpecDynamic(params[i].Type)
                        => /\ WordAt(args, i) = IntWord(off(i))
                           /\ SubSeq(args, off(i) + 1, off(i) + Len(PayloadOf(i))) = PayloadOf(i)
               /\ Len(args) = off(n + 1)

\* A string of 33 characters, a static word and a byte string: the payload of
\* the byte string starts at 96 + 96.
C21_Witness ==
    /\ Encoded
    /\ TypesOf(params) = <<"string", "uint256", "bytes">>
    /\ values[1] = StringValue(Long33)
    /\ WordAt(SubSeq(enc.bytes, 5, Len(enc.bytes)), 3) = IntWord(192)
    /\ SubSeq(enc.bytes, 4 + 193, 4 + 256) = IntWord(3) \o <<1, 2, 3>> \o Zeros(29)
    /\ Len(enc.bytes) = 4 + 256


(***************************************************************************)
(* Arrays                                                                  *)
(***************************************************************************)

\* The encodings of the elements from element i on, one after another.
RECURSIVE ElementEncodings(_, _, _)
ElementEncodings(t, elements, i) ==
    IF i > Len(elements) THEN <<>>
    ELSE encodeValue(t, elements[i]).bytes \o ElementEncodings(t, elements, i + 1)

\* An encodeValue call for an array type T[] over an elementary type, with a
\* slice whose elements T encodes.
ArrayCall ==
    /\ pc \in {"value", "valueback"}
    /\ HasSuffix(val.type, "[]")
    /\ TrimSuffix(val.type, "[]") \in ElementaryTypes
    /\ KindOf(val.value) \in {"[]interface{}", "[]string"}
    /\ \A i \in 1..Len(arrayElements(val.value)) :
          encodeValue(TrimSuffix(val.type, "[]"), arrayElements(val.value)[i]).st = "ok"

\* The count word followed by the encodings of the elements in order.
ArrayEncoding ==
    Ok(IntWord(Len(arrayElements(val.value)))
       \o ElementEncodings(TrimSuffix(val.type, "[]"), arrayElements(val.value), 1))

\* C22: for every array type T[] over address, uintN, intN, bool, string or
\* bytes and every element sequence, encodeValue(T[], vs) is the word of the
\* element count followed by encodeValue(T, v) for each v in order.
C22_ArrayEncoding == ArrayCall => val.r = ArrayEncoding

\* The same for the element types that do not begin with uint or int.
ArrayEncodingOfOtherElements ==
    (ArrayCall /\ ~HasPrefix(val.type, "uint") /\ ~HasPrefix(val.type, "int"))
        => val.r = ArrayEncoding


(***************************************************************************)
(* Signed integers                                                         *)
(***************************************************************************)

\* w + 1 on the bytes of a word, the carry out of the word dropped.
WordPlusOne(w) ==
    LET below == {i \in 1..Len(w) : w[i] # 255}
        j == IF below = {} THEN 0 ELSE CHOOSE i \in below : \A k \in below : k <= i
    IN  [i \in 1..Len(w) |-> IF i < j THEN w[i] ELSE IF i = j THEN w[i] + 1 ELSE 0]

\* The 32-byte two's complement of an integer whose magnitude fits 31 bytes:
\* the magnitude for v >= 0, all bits of the magnitude inverted plus one
\* for v < 0.
TwosComplementWord(x) ==
    IF ~x.neg THEN FillBytes(x, 32)
    ELSE WordPlusOne([i \in 1..32 |-> 255 - FillBytes(x, 32)[i]])

\* An encodeValue call for int256 with an integer whose magnitude fits 31
\* bytes.
SignedCall ==
    /\ pc \in {"value", "valueback"}
    /\ val.type = "int256"
    /\ KindOf(val.value) \in {"*big.Int", "int", "int64"}
    /\ Len(uintBig(val.value).abs) <= 31

\* C23: encodeValue(intN, v) is the 32-byte big-endian two's complement of
\* v, sign-extended: the word of a negative v begins with 0xff bytes and is
\* not the word of |v|.
C23_SignedEncoding ==
    SignedCall
        => /\ val.r = Ok(TwosComplementWord(uintBig(val.value)))
           /\ uintBig(val.value).neg
                => /\ val.r.bytes[1] = 255
                   /\ val.r.bytes # FillBytes(uintBig(val.value), 32)

\* The same for the integers that are not negative.
SignedEncodingOfNonNegative ==
    (SignedCall /\ ~uintBig(val.value).neg)
        => val.r = Ok(TwosComplementWord(uintBig(val.value)))


(***************************************************************************)
(* The life of a subscription                                              *)
(***************************************************************************)

\* The last call closed a channel that was closed already.
ClosedTwice == last.op \in {"Stop", "Unsubscribe"} /\ mon = "panic"

\* The last call sent an event on a closed channel.
SentOnClosed == last.op = "ProcessEvent" /\ mon = "panic"

\* C24: over every sequence of Subscribe, Stop, Unsubscribe and ProcessEvent
\* calls made one after another, no channel is closed more than once and no
\* event is sent on a closed channel.
C24_SequentialLifecycle == ~ClosedTwice /\ ~SentOnClosed

\* The part about sending: calls made one after another send no event on a
\* closed channel.
SequentialSendsAreSafe == ~SentOnClosed


(***************************************************************************)
(* A subscription stopped while an event is processed                      *)
(***************************************************************************)

\* C25: when ProcessEvent runs in one thread while Stop or Unsubscribe for a
\* matching subscription runs in another, under every interleaving of the
\* Active check, the channel send, the Active write and the channel close,
\* no event is sent on a channel that is closed already.
C25_ConcurrentLifecycle == threads.pe.pc # "panic"


(***************************************************************************)
(* Filter matching                                                         *)
(***************************************************************************)

\* The strings of a list, in lower case.
LowerSet(list) == {ToLower(list[i]) : i \in 1..Len(list)}

\* (a) the address list is empty or holds the event's address, and (b) the
\* event has a topic at every position of the filter, which the options of
\* that position hold unless there are none; all compared without case.
ExpectedMatch(event, filter) ==
    /\ filter.Address = <<>> \/ ToLower(event.Address) \in LowerSet(filter.Address)
    /\ \A i \in 1..Len(filter.Topics) :
          /\ i <= Len(event.Topics)
          /\ filter.Topics[i] = <<>> \/ ToLower(event.Topics[i]) \in LowerSet(filter.Topics[i])

\* AddAddress was called on the filter and every such call was rejected.
OnlyRejectedAddresses(calls) ==
    /\ \E i \in 1..Len(calls) : calls[i][1] = "AddAddress"
    /\ \A i \in 1..Len(calls) : calls[i][1] = "AddAddress" => ~ValidateAddress(calls[i][2])

\* C26: eventMatchesFilter returns true exactly when the filter's address
\* list is empty or holds the event's address and the event has, at every
\* topic position of the filter, a topic that the options of the position
\* hold or that has no options, compared without case; an event with fewer
\* topics than the filter has positions never matches, and a filter whose
\* only AddAddress call was rejected matches events from every address.
C26_FilterMatching ==
    pc = "matched"
        => /\ fm.r = ExpectedMatch(fm.event, fm.filter)
           /\ Len(fm.event.Topics) < Len(fm.filter.Topics) => ~fm.r
           /\ OnlyRejectedAddresses(fm.calls)
                => \A e \in MatchEvents :
                      e.Topics = fm.event.Topics => eventMatchesFilter(e, fm.filter) = fm.r

\* A filter whose AddAddress call was rejected and whose topic is written in
\* upper case matches an event of some address with the topic in lower case.
C26_Witness ==
    /\ pc = "matched"
    /\ fm.calls = << <<"AddAddress", Str("0x01")>>, <<"AddTopic", Str("0xDDF2")>> >>
    /\ fm.event.Address = AddrB
    /\ fm.event.Topics = <<Str("0xddf2")>>
    /\ fm.r


(***************************************************************************)
(* Units                                                                   *)
(***************************************************************************)

\* The text has no fractional part, or one that ends with neither a zero
\* nor the separator.
NoTrailingZeros(text) ==
    DotsOf(text) # {} => text[Len(text)] \notin {48, 46}

\* C27: for every integer amount a, negative ones included, and every
\* decimals d >= 0, ParseUnits(FormatUnits(a, d), d) succeeds and returns a,
\* and FormatUnits emits no trailing fractional zero and no bare trailing
\* separator.
C27_UnitsRoundTrip ==
    pc = "units"
        => /\ units.parsed.st = "ok"
           /\ units.parsed.value = NewInt(units.amount)
           /\ NoTrailingZeros(units.text)

\* The same for the amounts that are not negative, and the shape of the
\* text for every amount.
UnitsRoundTripOfNonNegative ==
    pc = "units"
        => /\ units.amount >= 0
                => units.parsed.st = "ok" /\ units.parsed.value = NewInt(units.amount)
           /\ NoTrailingZeros(units.text)


(***************************************************************************)
(* Transactions                                                            *)
(***************************************************************************)

\* Gas * GasPrice as an unbounded integer: the 64 bits of Gas read as an
\* unsigned number, times the price.
GasTimesPrice(tx) ==
    [neg |-> FALSE, abs |-> StripZeros(MulAdd(StripZeros(tx.Gas), tx.GasPrice, 0))]

\* C28: for every Transaction with Gas in the full uint64 range and a
\* GasPrice that is not negative, CalculateFee returns exactly Gas * GasPrice
\* as an unbounded integer and is never negative.
C28_FeeArithmetic ==
    pc = "fee" => fee.r = GasTimesPrice(fee.tx) /\ ~fee.r.neg

\* The same for the transactions whose Gas is below 2^63.
FeeArithmeticBelowInt64 ==
    pc = "fee" /\ fee.tx.Gas[1] < 128 => fee.r = GasTimesPrice(fee.tx) /\ ~fee.r.neg

====
